---------------------------- MODULE Spec2Model ----------------------------
(***************************************************************************)
(* A model of the traffic simulation engine (simulationEngine.ts) and of   *)
(* the worker that drives it (simulation.worker.ts).                       *)
(*                                                                         *)
(* Numbers: the engine computes in IEEE doubles.  The model computes in    *)
(* fixed point: every length, coordinate, progress and speed is an integer *)
(* number of 1/Scale units, and a product with a decimal factor is         *)
(* floored.  Probabilities are integers out of ProbScale.                  *)
(***************************************************************************)
EXTENDS Integers, Sequences, FiniteSets, TLC

\* A link that is absent (null) and a lane without owning road (roadId null).
NoLane == "null"
NoRoad == "null"

\* The three link keys, in the order the engine reads them.
LinkKeys == <<"forward", "forward_left", "forward_right">>

NoLinks == [forward |-> NoLane, forward_left |-> NoLane, forward_right |-> NoLane]

\* JavaScript truthiness of a link value: null and "" are falsy.
Truthy(link) == link # NoLane /\ link # ""

Range(s) == {s[i] : i \in 1..Len(s)}

(***************************************************************************)
(* Route finder                                                            *)
(***************************************************************************)

\* A destination test that forgets the links.
isEndLaneOwnerOnly(lane, targetRoadId) ==
    lane.roadId = targetRoadId

\* isEndLane: owned by the target road and all three links falsy.
isEndLane(lane, targetRoadId) ==
    /\ lane.roadId = targetRoadId
    /\ ~Truthy(lane.links.forward)
    /\ ~Truthy(lane.links.forward_left)
    /\ ~Truthy(lane.links.forward_right)

\* new Map(lanes.map(l => [l.id, l])).get(id): the LAST lane with that id,
\* or "undefined".
Undefined == [undefined |-> TRUE]

laneMapGet(lanes, id) ==
    LET idx == {i \in 1..Len(lanes) : lanes[i].id = id}
    IN  IF idx = {} THEN Undefined
        ELSE lanes[CHOOSE i \in idx : \A j \in idx : j <= i]

\* lanes.find(l => l.id === id): the FIRST lane with that id, or "undefined".
findLane(lanes, id) ==
    LET idx == {i \in 1..Len(lanes) : lanes[i].id = id}
    IN  IF idx = {} THEN Undefined
        ELSE lanes[CHOOSE i \in idx : \A j \in idx : i <= j]

\* The links read in another order: forward_left before forward.
nextLinksLeftFirst(lane) ==
    SelectSeq(<<lane.links.forward_left, lane.links.forward, lane.links.forward_right>>,
              Truthy)

\* [forward, forward_left, forward_right].filter(Boolean)
nextLinks(lane) ==
    SelectSeq(<<lane.links.forward, lane.links.forward_left, lane.links.forward_right>>,
              Truthy)

NoRoute == <<>>

RECURSIVE dfs(_, _, _, _, _)
RECURSIVE dfsLinks(_, _, _, _, _)
RECURSIVE dfsLinksForgetful(_, _, _, _, _)

\* What a call of dfs gives: the route it returns (NoRoute for null), the
\* visited set as the call leaves it, and, for the properties, the lanes the
\* call expanded (found in laneMap and looked at), in the order of expansion.
NoneFound(visited) == [route |-> NoRoute, visited |-> visited, expanded |-> <<>>]

\* A loop that gives up after the first link.
dfsLinksFirstOnly(lanes, links, newPath, visited, targetRoadId) ==
    IF links = <<>> THEN NoneFound(visited)
    ELSE dfs(lanes, Head(links), newPath, visited, targetRoadId)

\* A loop whose branches each start from the visited set of the lane they
\* leave: what a failed branch visited is forgotten.
dfsLinksForgetful(lanes, links, newPath, visited, targetRoadId) ==
    IF links = <<>> THEN NoneFound(visited)
    ELSE LET r == dfs(lanes, Head(links), newPath, visited, targetRoadId)
             rest(later) == [later EXCEPT !.expanded = r.expanded \o @]
         IN  IF r.route # NoRoute THEN r
             ELSE rest(dfsLinksForgetful(lanes, Tail(links), newPath, visited,
                                         targetRoadId))

\* The for loop of dfs over nextLinks: the first non-null result returns.
\* The visited set is the one set of the findRoute call, shared by all
\* branches, so each call hands it on as it left it.
dfsLinks(lanes, links, newPath, visited, targetRoadId) ==
    IF links = <<>> THEN NoneFound(visited)
    ELSE LET r == dfs(lanes, Head(links), newPath, visited, targetRoadId)
             rest(later) == [later EXCEPT !.expanded = r.expanded \o @]
         IN  IF r.route # NoRoute THEN r
             ELSE rest(dfsLinks(lanes, Tail(links), newPath, r.visited, targetRoadId))

dfs(lanes, currentLaneId, path, visited, targetRoadId) ==
    IF currentLaneId \in visited THEN NoneFound(visited)
    ELSE LET visited2 == visited \cup {currentLaneId}
             lane == laneMapGet(lanes, currentLaneId)
         IN  IF lane = Undefined THEN NoneFound(visited2)
             ELSE LET newPath == Append(path, currentLaneId)
                      below(found) == [found EXCEPT !.expanded = <<currentLaneId>> \o @]
                  IN  IF isEndLane(lane, targetRoadId)
                      THEN [route |-> newPath, visited |-> visited2,
                            expanded |-> <<currentLaneId>>]
                      ELSE below(dfsLinks(lanes, nextLinks(lane), newPath, visited2,
                                          targetRoadId))

\* A route finder that gives the start lane alone where there is no route.
findRouteOrStay(lanes, startLaneId, targetRoadId) ==
    IF dfs(lanes, startLaneId, <<>>, {}, targetRoadId).route = NoRoute
    THEN <<startLaneId>>
    ELSE dfs(lanes, startLaneId, <<>>, {}, targetRoadId).route

\* findRoute returns the route, or NoRoute (the empty sequence) for null:
\* a returned route is never empty, it holds at least the start lane.
findRoute(lanes, startLaneId, targetRoadId) ==
    dfs(lanes, startLaneId, <<>>, {}, targetRoadId).route

\* The lanes that the call findRoute(lanes, startLaneId, targetRoadId)
\* expands, in order.
findRouteExpansions(lanes, startLaneId, targetRoadId) ==
    dfs(lanes, startLaneId, <<>>, {}, targetRoadId).expanded


(***************************************************************************)
(* Lane graphs for the route finder: NumRouteLanes lanes, at most MaxLinks *)
(* links in all, each link naming a lane of the graph or GhostLane (an id  *)
(* that names no lane), each lane owned by a road or by none.              *)
(***************************************************************************)
MaxLinks == 3

LaneNames == <<"a", "b", "c">>
NumRouteLanes == Len(LaneNames)
GhostLane == "ghost"
RouteLaneIds == {LaneNames[i] : i \in 1..NumRouteLanes}
\* findRoute reads a lane's roadId only to compare it with the target road,
\* so the target road is r1 and a lane is owned by r1 or by no road (a lane
\* of another road behaves as a lane of no road).
RouteOwners == {"r1", NoRoad}
RouteTargets == {"r1"}

LinkSlots == (1..NumRouteLanes) \X Range(LinkKeys)

\* The sets of at most MaxLinks link slots that hold a link.
SlotSets == {S \in SUBSET LinkSlots : Cardinality(S) <= MaxLinks}

\* The lanes with the links f on the slots S, no link elsewhere, and owners o.
BuildLanes(S, f, o) ==
    [i \in 1..NumRouteLanes |->
        [id |-> LaneNames[i],
         links |-> [k \in Range(LinkKeys) |->
                       IF <<i, k>> \in S THEN f[<<i, k>>] ELSE NoLane],
         roadId |-> o[i]]]

VARIABLES
    rLanes,     \* the lanes argument of findRoute
    rQuery,     \* <<startLaneId, targetRoadId>> once findRoute was called, else <<>>
    rRoute,     \* what findRoute returned (NoRoute for null)
    \* the worker (simulation.worker.ts)
    currentState,   \* [roads, lanes, vehicles]
    isPaused,
    \* the module state of the engine
    currentGlobalVehicleSpeed,
    roadTrafficSettings,    \* a function from the road ids that have an entry
    vehicleCounter,
    \* what the worker handed to postMessage last
    posted,
    \* history: what the run went through, read by the properties only
    spawned,    \* how many vehicles were spawned since the start
    handled,    \* how many 'interchange' messages were handled
    lastLoaded, \* the value of handled when currentState was last replaced by a load
    prevTick,   \* the input of the last simulationStep
    ticks,      \* the parity of the number of simulationStep calls of the timer
    \* a caller of loadInterchangeData that keeps its document
    document,   \* the caller's document object
    results,    \* what its calls of loadInterchangeData returned, in order
    \* a caller of simulationStep that keeps snapshots of its own
    seed,       \* the module state of random(), where the draws are computed
    worlds,     \* the caller's snapshots, each the result of its last tick
    alone,      \* history: each snapshot as if it had been ticked alone
    replay,     \* history: the runs of a caller that calls setSeed and starts over
    \* the page (TrafficSimulation.tsx)
    roadSettings,   \* the settings the panel shows, by road id, once changed
    \* history: what became of each vehicle spawned, by vehicle id
    life

routeVars == <<rLanes, rQuery, rRoute>>
engineVars == <<currentState, isPaused, currentGlobalVehicleSpeed, roadTrafficSettings,
                vehicleCounter, posted, spawned, handled, lastLoaded, prevTick,
                ticks>>
loadVars == <<document, results>>
instanceVars == <<seed, worlds, alone, replay>>
panelVars == <<roadSettings>>
vars == <<routeVars, engineVars, loadVars, instanceVars, panelVars, life>>

\* roadTrafficSettings = {}: no road has an entry.
NoSettings == [id \in {} |-> [inflow |-> 0, turnProbability |-> 0]]

NoTick == [none |-> TRUE]
NoPost == [none |-> TRUE]
NoDocument == [none |-> TRUE]

\* The engine with no network and a stopped timer: the route finder alone.
EngineIdle ==
    /\ currentState = [roads |-> <<>>, lanes |-> <<>>, vehicles |-> <<>>]
    /\ isPaused = TRUE
    /\ currentGlobalVehicleSpeed = 0
    /\ roadTrafficSettings = NoSettings
    /\ vehicleCounter = 0
    /\ posted = NoPost
    /\ spawned = 0
    /\ handled = 0
    /\ lastLoaded = 0
    /\ prevTick = NoTick
    /\ ticks = 0

\* No call of findRoute from outside the engine.
RouteIdle ==
    /\ rLanes = <<>>
    /\ rQuery = <<>>
    /\ rRoute = NoRoute

\* No caller that keeps a document.
LoadIdle ==
    /\ document = NoDocument
    /\ results = <<>>

\* let seed = 2.  Where the draws of a tick are inputs of the model, seed
\* stays at this value: the draws stand for what random() gives.
DefaultSeed == [neg |-> FALSE, hi |-> 0, lo |-> 2]

\* No caller with snapshots of its own.
NoReplay == <<>>

InstancesIdle ==
    /\ seed = DefaultSeed
    /\ worlds = <<>>
    /\ alone = <<>>
    /\ replay = NoReplay

\* No record of the vehicles.
NoLife == <<>>
LifeIdle == life = NoLife

\* useState({}): the page has no settings of its own yet.
PanelIdle == roadSettings = NoSettings

InitRoute ==
    /\ \E S \in SlotSets :
          \E f \in [S -> RouteLaneIds \cup {GhostLane}] :
             \E o \in [1..NumRouteLanes -> RouteOwners] :
                rLanes = BuildLanes(S, f, o)
    /\ rQuery = <<>>
    /\ rRoute = NoRoute
    /\ EngineIdle
    /\ LoadIdle
    /\ InstancesIdle
    /\ LifeIdle
    /\ PanelIdle

FindRoute(startLaneId, targetRoadId) ==
    /\ rQuery = <<>>
    /\ rQuery' = <<startLaneId, targetRoadId>>
    /\ rRoute' = findRoute(rLanes, startLaneId, targetRoadId)
    /\ UNCHANGED <<rLanes, engineVars, panelVars, loadVars, instanceVars, life>>

NextRoute ==
    \E e \in RouteLaneIds \cup {GhostLane}, r \in RouteTargets : FindRoute(e, r)

SpecRoute == InitRoute /\ [][NextRoute]_vars

\* The link values of a lane that the search follows.
LinksOf(lane) == {l \in {lane.links.forward, lane.links.forward_left,
                         lane.links.forward_right} : Truthy(l)}

\* The lane ids reachable from a set of lane ids by following links.
RECURSIVE Reachable(_, _)
Reachable(lanes, seen) ==
    LET more == UNION {LinksOf(laneMapGet(lanes, id)) :
                         id \in {x \in seen : laneMapGet(lanes, x) # Undefined}}
    IN  IF more \subseteq seen THEN seen ELSE Reachable(lanes, seen \cup more)

EndLaneReachable(lanes, startLaneId, targetRoadId) ==
    \E id \in Reachable(lanes, {startLaneId}) :
        /\ laneMapGet(lanes, id) # Undefined
        /\ laneMapGet(lanes, id).roadId = targetRoadId
        /\ LinksOf(laneMapGet(lanes, id)) = {}

\* C1: a route that findRoute returns starts at the start lane, each lane of
\* it is reached from the one before through one of that lane's three links,
\* its last lane is owned by the target road and has no link, and no lane id
\* occurs twice in it.
C1_RouteValid ==
    (rQuery # <<>> /\ rRoute # NoRoute) =>
        /\ rRoute[1] = rQuery[1]
        /\ \A i \in 1..(Len(rRoute) - 1) :
              /\ laneMapGet(rLanes, rRoute[i]) # Undefined
              /\ rRoute[i + 1] \in LinksOf(laneMapGet(rLanes, rRoute[i]))
        /\ LET last == laneMapGet(rLanes, rRoute[Len(rRoute)])
           IN  /\ last # Undefined
               /\ last.roadId = rQuery[2]
               /\ last.links = NoLinks
        /\ \A i, j \in 1..Len(rRoute) : rRoute[i] = rRoute[j] => i = j

\* A route over two links was returned.
C1_Witness == rQuery # <<>> /\ Len(rRoute) = 3

\* C2: findRoute returns a route exactly when an end lane of the target road
\* is reachable from the start lane by following links; the visited set
\* shared by all branches never hides a reachable end lane.
C2_RouteComplete ==
    rQuery # <<>> =>
        ((rRoute # NoRoute) <=> EndLaneReachable(rLanes, rQuery[1], rQuery[2]))

\* A route was found through a later link of the start lane, after the whole
\* branch behind its forward link was searched without success, and the lane
\* behind the forward link links to a lane of the returned route, which the
\* failed branch had therefore already visited.
C2_Witness ==
    /\ rQuery # <<>>
    /\ Len(rRoute) >= 2
    /\ LET start == laneMapGet(rLanes, rQuery[1])
       IN  /\ Truthy(start.links.forward)
           /\ start.links.forward # rQuery[1]
           /\ start.links.forward # rRoute[2]
           /\ laneMapGet(rLanes, start.links.forward) # Undefined
           /\ LinksOf(laneMapGet(rLanes, start.links.forward)) \cap Range(rRoute) # {}


(***************************************************************************)
(* Numbers                                                                 *)
(***************************************************************************)

\* One unit of the engine is Scale units of the model.
Scale == 100

\* A probability p of the engine is p * ProbScale in the model.
ProbScale == 100

Abs(x) == IF x < 0 THEN -x ELSE x
Min(a, b) == IF a < b THEN a ELSE b
Max(a, b) == IF a > b THEN a ELSE b

\* x * (num / den) for a decimal factor, e.g. x * 0.9 as MulDec(x, 9, 10).
MulDec(x, num, den) == (x * num) \div den

\* The not-a-number of IEEE arithmetic (0 / 0, 0 * Infinity): every
\* comparison with it is false.
NaN == 999999999
IsNaN(x) == x = NaN

\* The distance that no vehicle is nearer than (Infinity).
Infinity == 888888888

RECURSIVE ISqrtIn(_, _, _)
ISqrtIn(n, lo, hi) ==
    IF lo >= hi THEN lo
    ELSE LET mid == (lo + hi + 1) \div 2
         IN  IF mid * mid <= n THEN ISqrtIn(n, mid, hi) ELSE ISqrtIn(n, lo, mid - 1)

\* Math.sqrt(dx * dx + dy * dy), floored to a model unit; exact when the
\* segment is parallel to an axis.
Hypot(dx, dy) ==
    IF IsNaN(dx) \/ IsNaN(dy) THEN NaN
    ELSE IF dy = 0 THEN Abs(dx)
    ELSE IF dx = 0 THEN Abs(dy)
    ELSE ISqrtIn(dx * dx + dy * dy, 0, Abs(dx) + Abs(dy))

\* atan(r / 1000) in degrees for 0 <= r <= 1000, floored: exact at 0 and at
\* 1000, within a degree in between.
AtanDeg(r) == (45000 * r + 16 * r * (1000 - r)) \div 1000000

\* Math.atan2(dy, dx).  An angle a of the engine (radians) is a * 180 / pi
\* degrees in the model, so that atan2 is in -180 .. 180; atan2(0, 0) is 0.
Atan2(dy, dx) ==
    IF IsNaN(dx) \/ IsNaN(dy) THEN NaN
    ELSE IF dx = 0 /\ dy = 0 THEN 0
    ELSE LET a == Abs(dy)
             b == Abs(dx)
             base == IF a <= b THEN AtanDeg((a * 1000) \div b)
                     ELSE 90 - AtanDeg((b * 1000) \div a)
         IN  IF dx >= 0 /\ dy >= 0 THEN base
             ELSE IF dx < 0 /\ dy >= 0 THEN 180 - base
             ELSE IF dx < 0 THEN base - 180
             ELSE -base

(***************************************************************************)
(* Lane geometry.  A lane point is [x, y, visibility]; a lane is           *)
(* [id, points, links, roadId, virtual].                                   *)
(***************************************************************************)

RECURSIVE SumLen(_, _)
SumLen(points, i) ==
    IF i > Len(points) THEN 0
    ELSE Hypot(points[i].x - points[i - 1].x, points[i].y - points[i - 1].y)
         + SumLen(points, i + 1)

computeLaneLength(lane) == SumLen(lane.points, 2)

\* The walk of getPositionAndVisibilityOnLane from segment i on.
RECURSIVE PosWalk(_, _, _)
PosWalk(points, i, remaining) ==
    IF i > Len(points)
    THEN [x |-> points[Len(points)].x, y |-> points[Len(points)].y,
          visible |-> points[Len(points)].visibility = 1,
          rotation |-> 0]
    ELSE LET start == points[i - 1]
             end == points[i]
             dx == end.x - start.x
             dy == end.y - start.y
             segLen == Hypot(dx, dy)
         IN  IF remaining <= segLen
             THEN IF segLen = 0
                  \* ratio is 0 / 0 or -r / 0: x and y are NaN, and ratio < 0.5
                  \* holds only for the ratio -Infinity.
                  THEN [x |-> NaN, y |-> NaN,
                        visible |-> (IF remaining < 0 THEN start.visibility
                                     ELSE end.visibility) = 1,
                        rotation |-> Atan2(dy, dx)]
                  ELSE [x |-> start.x + (dx * remaining) \div segLen,
                        y |-> start.y + (dy * remaining) \div segLen,
                        visible |-> (IF 2 * remaining < segLen THEN start.visibility
                                     ELSE end.visibility) = 1,
                        rotation |-> Atan2(dy, dx)]
             ELSE PosWalk(points, i + 1, remaining - segLen)

getPositionAndVisibilityOnLane(lane, progress) == PosWalk(lane.points, 2, progress)

\* The segments j .. of a lane that getLaneSegmentsNearProgress adds after the
\* one that holds the progress point, while look-ahead distance remains.
RECURSIVE MoreSegments(_, _, _)
MoreSegments(points, j, remainingDistance) ==
    IF j > Len(points) \/ remainingDistance <= 0 THEN <<>>
    ELSE <<[start |-> [x |-> points[j - 1].x, y |-> points[j - 1].y],
            end |-> [x |-> points[j].x, y |-> points[j].y]]>>
         \o MoreSegments(points, j + 1,
                remainingDistance - Hypot(points[j].x - points[j - 1].x,
                                          points[j].y - points[j - 1].y))

LookAhead == 50 * Scale

RECURSIVE SegWalk(_, _, _, _)
SegWalk(points, i, currentProgress, progress) ==
    IF i > Len(points)
    THEN \* not found: the last segment of the lane
         IF Len(points) >= 2
         THEN <<[start |-> [x |-> points[Len(points) - 1].x, y |-> points[Len(points) - 1].y],
                 end |-> [x |-> points[Len(points)].x, y |-> points[Len(points)].y]]>>
         ELSE <<>>
    ELSE LET start == points[i - 1]
             end == points[i]
             dx == end.x - start.x
             dy == end.y - start.y
             segLen == Hypot(dx, dy)
         IN  IF currentProgress <= progress /\ progress <= currentProgress + segLen
             THEN LET progressInSegment == progress - currentProgress
                      remainingInSegment == segLen - progressInSegment
                      currentPos ==
                          IF segLen = 0 THEN [x |-> NaN, y |-> NaN]
                          ELSE [x |-> start.x + (dx * progressInSegment) \div segLen,
                                y |-> start.y + (dy * progressInSegment) \div segLen]
                  IN  <<[start |-> currentPos, end |-> [x |-> end.x, y |-> end.y]]>>
                      \o MoreSegments(points, i + 1, LookAhead - remainingInSegment)
             ELSE SegWalk(points, i + 1, currentProgress + segLen, progress)

getLaneSegmentsNearProgress(lane, progress) == SegWalk(lane.points, 2, 0, progress)

\* Math.abs(a - b) < 0.001
Near(a, b) == ~IsNaN(a) /\ ~IsNaN(b) /\ Abs(a - b) * 1000 < Scale

doLineSegmentsIntersect(x1, y1, x2, y2, x3, y3, x4, y4) ==
    IF \/ (Near(x1, x3) /\ Near(y1, y3))
       \/ (Near(x1, x4) /\ Near(y1, y4))
       \/ (Near(x2, x3) /\ Near(y2, y3))
       \/ (Near(x2, x4) /\ Near(y2, y4))
    THEN FALSE
    ELSE IF IsNaN(x1) \/ IsNaN(y1) \/ IsNaN(x3) \/ IsNaN(y3)
    THEN FALSE   \* det, t and u are NaN: t > 0 is false
    ELSE LET d1x == x2 - x1
             d1y == y2 - y1
             d2x == x4 - x3
             d2y == y4 - y3
             det == d1x * d2y - d1y * d2x
             dx == x3 - x1
             dy == y3 - y1
             tnum == dx * d2y - dy * d2x
             unum == dx * d1y - dy * d1x
         IN  IF Abs(det) < (Scale * Scale) \div 1000 THEN FALSE
             ELSE IF det > 0
                  THEN tnum > 0 /\ tnum < det /\ unum > 0 /\ unum < det
                  ELSE tnum < 0 /\ tnum > det /\ unum < 0 /\ unum > det


(***************************************************************************)
(* Engine settings and vehicles.  A vehicle is                             *)
(* [id, route, currentLaneIndex (from 0), progress, speed, maxSpeed,       *)
(*  position, rotation, sourceRoadId, targetRoadId, visible, dimensions,   *)
(*  stoppedSince, born].                                                   *)
(* born is not a field of the engine: it numbers the network (the          *)
(* snapshot lineage) the vehicle was spawned into.  Left out: type, color  *)
(* and blockingVehicles (written each tick, read by nothing that decides a *)
(* speed).                                                                 *)
(***************************************************************************)
DEFAULT_VEHICLE_SPEED == 10 * Scale
VEHICLE_ACCELERATION == 2 * Scale
VEHICLE_DECELERATION == 4 * Scale
MIN_VEHICLE_SPEED == 0
DANGER_RADIUS == 50 * Scale
DEFAULT_INFLOW_RATE == MulDec(ProbScale, 20, 100)
DEFAULT_TURN_PROBABILITY == MulDec(ProbScale, 25, 100)
VehicleLength == 20 * Scale
VehicleWidth == 10 * Scale
\* dimensions: { length: 20, width: 10 }
VehicleDimensions == [length |-> VehicleLength, width |-> VehicleWidth]
\* vehicle.dimensions.length * SAFE_DISTANCE_MULTIPLIER, with the multiplier 2.5
safeDistanceOf(vehicle) == MulDec(vehicle.dimensions.length, 25, 10)
DeadlockThreshold == 5
SpawnClearance == 30 * Scale

\* The sequence of the members of a set of numbers, ascending.
RECURSIVE SortedSeq(_)
SortedSeq(S) ==
    IF S = {} THEN <<>>
    ELSE LET m == CHOOSE x \in S : \A y \in S : x <= y
         IN  <<m>> \o SortedSeq(S \ {m})

\* route[currentLaneIndex]: undefined past the end of the route.
RouteAt(vehicle, index) ==
    IF index >= 0 /\ index < Len(vehicle.route) THEN vehicle.route[index + 1]
    ELSE "undefined"

CurrentLaneId(vehicle) == RouteAt(vehicle, vehicle.currentLaneIndex)

\* roads.find(r => r.id === id): the first road with that id, or "undefined".
findRoad(roads, id) == findLane(roads, id)

\* checkLanesCrossing.  builtinRoads is the module-level loadedRoads, the
\* roads of the built-in network, whatever network is being simulated.
checkLanesCrossing(builtinRoads, lane1, lane2, progress1, progress2) ==
    LET road1 == {r \in Range(builtinRoads) : r.id = lane1.roadId}
        road2 == {r \in Range(builtinRoads) : r.id = lane2.roadId}
        layered ==
            /\ lane1.roadId # NoRoad /\ lane2.roadId # NoRoad
            /\ road1 # {} /\ road2 # {}
            /\ (findRoad(builtinRoads, lane1.roadId)).zIndex
                 # (findRoad(builtinRoads, lane2.roadId)).zIndex
        \* distance > DANGER_RADIUS; false when a position is NaN
        far(pos1, pos2) ==
            IF IsNaN(pos1.x) \/ IsNaN(pos2.x) THEN FALSE
            ELSE \/ Abs(pos1.x - pos2.x) > DANGER_RADIUS
                 \/ Abs(pos1.y - pos2.y) > DANGER_RADIUS
                 \/ Hypot(pos1.x - pos2.x, pos1.y - pos2.y) > DANGER_RADIUS
        intersecting(segs1, segs2) ==
            \E i \in 1..Len(segs1), j \in 1..Len(segs2) :
                doLineSegmentsIntersect(
                    segs1[i].start.x, segs1[i].start.y,
                    segs1[i].end.x, segs1[i].end.y,
                    segs2[j].start.x, segs2[j].start.y,
                    segs2[j].end.x, segs2[j].end.y)
    IN  IF layered THEN FALSE
        ELSE IF far(getPositionAndVisibilityOnLane(lane1, progress1),
                    getPositionAndVisibilityOnLane(lane2, progress2))
        THEN FALSE
        ELSE intersecting(getLaneSegmentsNearProgress(lane1, progress1),
                          getLaneSegmentsNearProgress(lane2, progress2))

\* getBlockingVehicles: the indices (in vehicles, ascending, as filter keeps
\* the order) of the vehicles in front and of the crossing vehicles.
NoBlocking == [vehiclesInFront |-> <<>>, crossingVehicles |-> <<>>]

getBlockingVehicles(builtinRoads, vehicle, vehicles, lanes) ==
    LET currentLaneId == CurrentLaneId(vehicle)
        currentLane == findLane(lanes, currentLaneId)
    IN  IF currentLane = Undefined THEN NoBlocking
        ELSE
        LET laneLength == computeLaneLength(currentLane)
            isNearEnd == laneLength - vehicle.progress < vehicle.dimensions.length * 2
            nextLaneId == IF isNearEnd /\ vehicle.currentLaneIndex < Len(vehicle.route) - 1
                          THEN RouteAt(vehicle, vehicle.currentLaneIndex + 1)
                          ELSE NoLane
            inFront == {i \in 1..Len(vehicles) :
                LET v == vehicles[i]
                    isInCurrentLane == CurrentLaneId(v) = currentLaneId
                    isAhead == /\ isInCurrentLane
                               /\ v.progress > vehicle.progress
                               /\ v.progress - vehicle.progress < 50 * Scale
                    isInNextLane == Truthy(nextLaneId) /\ CurrentLaneId(v) = nextLaneId
                    isNearStart == isInNextLane
                                   /\ v.progress < vehicle.dimensions.length * 3
                IN  v.id # vehicle.id /\ (isAhead \/ isNearStart)}
            crossing == {i \in 1..Len(vehicles) :
                LET v == vehicles[i]
                    vLane == findLane(lanes, CurrentLaneId(v))
                    nextLane == findLane(lanes, nextLaneId)
                IN  /\ v.id # vehicle.id
                    /\ i \notin inFront
                    /\ vLane # Undefined
                    /\ \/ checkLanesCrossing(builtinRoads, currentLane, vLane,
                                             vehicle.progress, v.progress)
                       \/ /\ Truthy(nextLaneId)
                          /\ nextLane # Undefined
                          /\ checkLanesCrossing(builtinRoads, nextLane, vLane,
                                                0, v.progress)}
        IN  [vehiclesInFront |-> SortedSeq(inFront),
             crossingVehicles |-> SortedSeq(crossing)]

\* distanceToNearestVehicle.  leadVehicle is an index into vehicles, 0 for null.
NoLead == [distance |-> Infinity, leadVehicle |-> 0, isCrossing |-> FALSE]

RECURSIVE NearestInFront(_, _, _, _, _, _)
NearestInFront(vehicle, vehicles, laneLength, front, k, best) ==
    IF k > Len(front) THEN best
    ELSE LET b == vehicles[front[k]]
             distance ==
                 IF CurrentLaneId(b) = CurrentLaneId(vehicle)
                 THEN b.progress - b.dimensions.length \div 2
                      - (vehicle.progress + vehicle.dimensions.length \div 2)
                 ELSE laneLength - vehicle.progress + b.progress
         IN  NearestInFront(vehicle, vehicles, laneLength, front, k + 1,
                IF distance < best.distance
                THEN [distance |-> distance, leadVehicle |-> front[k],
                      isCrossing |-> FALSE]
                ELSE best)

RECURSIVE NearestCrossing(_, _, _, _, _)
NearestCrossing(vehicle, vehicles, crossing, k, best) ==
    IF k > Len(crossing) THEN best
    ELSE LET c == vehicles[crossing[k]]
             nan == IsNaN(c.position.x) \/ IsNaN(vehicle.position.x)
             distance ==
                 IF nan THEN NaN
                 ELSE Hypot(c.position.x - vehicle.position.x,
                            c.position.y - vehicle.position.y)
                      - (vehicle.dimensions.length \div 2 + c.dimensions.length \div 2)
         IN  NearestCrossing(vehicle, vehicles, crossing, k + 1,
                IF ~nan /\ distance < best.distance
                THEN [distance |-> distance, leadVehicle |-> crossing[k],
                      isCrossing |-> TRUE]
                ELSE best)

\* A nearest vehicle that is looked for among the crossing vehicles only.
distanceToNearestVehicleCrossingOnly(vehicle, vehicles, blockingInfo, lanes) ==
    NearestCrossing(vehicle, vehicles, blockingInfo.crossingVehicles, 1, NoLead)

distanceToNearestVehicle(vehicle, vehicles, blockingInfo, lanes) ==
    IF blockingInfo.vehiclesInFront = <<>> /\ blockingInfo.crossingVehicles = <<>>
    THEN NoLead
    ELSE LET currentLane == findLane(lanes, CurrentLaneId(vehicle))
         IN  IF currentLane = Undefined THEN NoLead
             ELSE NearestCrossing(vehicle, vehicles, blockingInfo.crossingVehicles, 1,
                      NearestInFront(vehicle, vehicles, computeLaneLength(currentLane),
                                     blockingInfo.vehiclesInFront, 1, NoLead))


\* A top speed that is the upper end of the jitter for every vehicle.
MaxSpeedOrJitterTop(vehicle, globalSpeed) == globalSpeed + 5 * Scale

\* vehicle.maxSpeed || currentGlobalVehicleSpeed: a maxSpeed of 0 is falsy.
MaxSpeedOr(vehicle, globalSpeed) ==
    IF vehicle.maxSpeed # 0 THEN vehicle.maxSpeed ELSE globalSpeed

\* A crossing escape for the strictly longer wait only.
handleDeadlockStrict(vehicle, leadIdx, isCrossing, speed, clearPath, allVehicles) ==
    IF /\ isCrossing
       /\ leadIdx # 0
       /\ allVehicles[leadIdx].speed = 0
       /\ allVehicles[leadIdx].stoppedSince > 0
       /\ vehicle.stoppedSince > allVehicles[leadIdx].stoppedSince
    THEN [newSpeed |-> MulDec(vehicle.maxSpeed, 6, 10), isClearPath |-> TRUE]
    ELSE [newSpeed |-> speed, isClearPath |-> clearPath]

\* handleDeadlock.  vehicle.maxSpeed is never undefined: simulationStep sets
\* it at spawn.
handleDeadlock(vehicle, leadIdx, isCrossing, speed, clearPath, allVehicles) ==
    IF isCrossing
    THEN IF /\ leadIdx # 0
            /\ allVehicles[leadIdx].speed = 0
            /\ allVehicles[leadIdx].stoppedSince > 0
            /\ vehicle.stoppedSince >= allVehicles[leadIdx].stoppedSince
         THEN [newSpeed |-> MulDec(vehicle.maxSpeed, 6, 10), isClearPath |-> TRUE]
         ELSE [newSpeed |-> speed, isClearPath |-> clearPath]
    ELSE LET vehiclesDirectlyAhead == {i \in 1..Len(allVehicles) :
                 /\ allVehicles[i].id # vehicle.id
                 /\ CurrentLaneId(allVehicles[i]) = CurrentLaneId(vehicle)
                 /\ allVehicles[i].progress > vehicle.progress}
         IN  IF vehiclesDirectlyAhead = {}
             THEN [newSpeed |-> MulDec(vehicle.maxSpeed, 6, 10), isClearPath |-> TRUE]
             ELSE [newSpeed |-> speed, isClearPath |-> clearPath]

\* A safety zone that takes the greater of the two speeds.
handleSafetyZoneBoundedBelow(vehicle, leadIdx, currentSpeed, allVehicles, globalSpeed) ==
    IF leadIdx # 0
    THEN [newSpeed |-> Max(MulDec(allVehicles[leadIdx].speed, 9, 10),
                           Max(MIN_VEHICLE_SPEED, vehicle.speed - VEHICLE_DECELERATION)),
          isClearPath |-> FALSE]
    ELSE [newSpeed |-> Min(MaxSpeedOr(vehicle, globalSpeed),
                           vehicle.speed + VEHICLE_ACCELERATION),
          isClearPath |-> TRUE]

\* handleSafetyZone (the list of blocking vehicles left out).
handleSafetyZone(vehicle, leadIdx, currentSpeed, allVehicles, globalSpeed) ==
    IF leadIdx # 0
    THEN [newSpeed |-> Min(MulDec(allVehicles[leadIdx].speed, 9, 10),
                           Max(MIN_VEHICLE_SPEED, vehicle.speed - VEHICLE_DECELERATION)),
          isClearPath |-> FALSE]
    ELSE [newSpeed |-> Min(MaxSpeedOr(vehicle, globalSpeed),
                           vehicle.speed + VEHICLE_ACCELERATION),
          isClearPath |-> TRUE]

\* A chain without the hard stop: the gap below half the safe distance is
\* handled as the rest of the safety zone.
ZoneDecisionSoftStop(vehicle, near, allVehicles, globalSpeed) ==
    IF near.distance < safeDistanceOf(vehicle)
    THEN handleSafetyZone(vehicle, near.leadVehicle, vehicle.speed, allVehicles,
                          globalSpeed)
    ELSE [newSpeed |-> vehicle.speed, isClearPath |-> TRUE]

\* The speed and the clear-path flag after the if / else-if chain of
\* updateVehicle over the distance to the nearest vehicle.
ZoneDecision(vehicle, near, allVehicles, globalSpeed) ==
    LET safeDistance == safeDistanceOf(vehicle)
        distance == near.distance
        lead == near.leadVehicle
    IN  IF 2 * distance < safeDistance
        THEN IF vehicle.stoppedSince > DeadlockThreshold
             THEN handleDeadlock(vehicle, lead, near.isCrossing, 0, FALSE, allVehicles)
             ELSE [newSpeed |-> 0, isClearPath |-> FALSE]
        ELSE IF distance < safeDistance
        THEN IF vehicle.stoppedSince > DeadlockThreshold /\ near.isCrossing
             THEN handleDeadlock(vehicle, lead, near.isCrossing, vehicle.speed, TRUE,
                                 allVehicles)
             ELSE handleSafetyZone(vehicle, lead, vehicle.speed, allVehicles, globalSpeed)
        ELSE IF /\ lead # 0
                /\ allVehicles[lead].speed < vehicle.speed
                /\ vehicle.speed - allVehicles[lead].speed > 5 * Scale
                \* timeToCollision = distance / (speed - lead speed) < 2.0
                /\ distance < 2 * (vehicle.speed - allVehicles[lead].speed)
        THEN [newSpeed |-> Max(allVehicles[lead].speed,
                               vehicle.speed - VEHICLE_DECELERATION),
              isClearPath |-> FALSE]
        ELSE [newSpeed |-> vehicle.speed, isClearPath |-> TRUE]

\* The resolved speed of updateVehicle: the zone decision, then the
\* acceleration on a clear path, then the failsafe.
ResolvedSpeed(vehicle, near, allVehicles, globalSpeed) ==
    LET zone == ZoneDecision(vehicle, near, allVehicles, globalSpeed)
        top == MaxSpeedOr(vehicle, globalSpeed)
        accelerated == IF zone.isClearPath
                       THEN Min(top, vehicle.speed + VEHICLE_ACCELERATION)
                       ELSE zone.newSpeed
    IN  IF 2 * vehicle.speed < top /\ zone.isClearPath
        THEN Min(MulDec(top, 6, 10), accelerated + MulDec(VEHICLE_ACCELERATION, 15, 10))
        ELSE accelerated

\* updateVehicle returns null for a finished route.
Finished == [finished |-> TRUE]

\* What getBlockingVehicles and distanceToNearestVehicle give updateVehicle.
Perceive(builtinRoads, vehicle, lanes, allVehicles) ==
    distanceToNearestVehicle(vehicle, allVehicles,
        getBlockingVehicles(builtinRoads, vehicle, allVehicles, lanes), lanes)

\* A counter that a moving vehicle keeps.
stoppedSinceKept(vehicle, newSpeed) ==
    IF newSpeed = 0 THEN vehicle.stoppedSince + 1 ELSE vehicle.stoppedSince

\* stoppedSince: newSpeed === 0 ? vehicle.stoppedSince + 1 : 0
stoppedSinceAfter(vehicle, newSpeed) ==
    IF newSpeed = 0 THEN vehicle.stoppedSince + 1 ELSE 0

updateVehicle(builtinRoads, vehicle, lanes, allVehicles, globalSpeed) ==
    LET lane == findLane(lanes, CurrentLaneId(vehicle))
    IN  IF lane = Undefined THEN vehicle
        ELSE IF Len(lane.points) < 2 THEN vehicle
        ELSE
        LET \* the vehicle with its new lane index, progress, speed and position
            moved(index, progress, newSpeed, pos) ==
                [vehicle EXCEPT
                    !.currentLaneIndex = index,
                    !.progress = progress,
                    !.position = [x |-> pos.x, y |-> pos.y],
                    !.rotation = pos.rotation,
                    !.speed = newSpeed,
                    !.stoppedSince = stoppedSinceAfter(vehicle, newSpeed)]
            advance(newSpeed, laneLength, nextLane) ==
                IF vehicle.progress + newSpeed < laneLength
                THEN moved(vehicle.currentLaneIndex, vehicle.progress + newSpeed,
                           newSpeed,
                           getPositionAndVisibilityOnLane(
                               lane, vehicle.progress + newSpeed))
                ELSE IF nextLane = Undefined THEN Finished
                ELSE \* the leftover is carried into the next lane
                     moved(vehicle.currentLaneIndex + 1,
                           vehicle.progress + newSpeed - laneLength, newSpeed,
                           getPositionAndVisibilityOnLane(
                               nextLane, vehicle.progress + newSpeed - laneLength))
        IN  advance(ResolvedSpeed(vehicle,
                                  Perceive(builtinRoads, vehicle, lanes, allVehicles),
                                  allVehicles, globalSpeed),
                    computeLaneLength(lane),
                    findLane(lanes, RouteAt(vehicle, vehicle.currentLaneIndex + 1)))


\* The first truthy link, in the order forward, forward_left, forward_right,
\* whose lane has an owning road gives that road.
RECURSIVE LinkedRoadId(_, _, _)
LinkedRoadId(lanes, links, k) ==
    IF k > Len(links) THEN NoRoad
    ELSE LET linkedLane == findLane(lanes, links[k])
         IN  IF Truthy(links[k]) /\ linkedLane # Undefined /\ linkedLane.roadId # NoRoad
             THEN linkedLane.roadId
             ELSE LinkedRoadId(lanes, links, k + 1)

\* A copy of the vehicle that takes its current speed for its maximum.
updateVehicleVisibilityCapsSpeed(vehicle, lanes, roads) ==
    [vehicle EXCEPT !.visible = TRUE, !.maxSpeed = vehicle.speed]

\* updateVehicleVisibility.  Every road of the model has zIndex, x, y, width
\* and height.
updateVehicleVisibility(vehicle, lanes, roads) ==
    LET currentLane == findLane(lanes, CurrentLaneId(vehicle))
    IN  IF currentLane = Undefined THEN vehicle
        ELSE
        LET relevantRoadId ==
                IF currentLane.roadId # NoRoad THEN currentLane.roadId
                ELSE LinkedRoadId(lanes, <<currentLane.links.forward,
                                           currentLane.links.forward_left,
                                           currentLane.links.forward_right>>, 1)
            baseRoad == findRoad(roads, relevantRoadId)
            baseZ == IF baseRoad = Undefined THEN 0 ELSE baseRoad.zIndex
            underHigherRoad == \E i \in 1..Len(roads) :
                /\ roads[i].zIndex > baseZ
                \* a comparison with NaN is false
                /\ ~IsNaN(vehicle.position.x)
                /\ vehicle.position.x >= roads[i].x
                /\ vehicle.position.x <= roads[i].x + roads[i].width
                /\ vehicle.position.y >= roads[i].y
                /\ vehicle.position.y <= roads[i].y + roads[i].height
        IN  IF relevantRoadId = NoRoad THEN [vehicle EXCEPT !.visible = TRUE]
            ELSE [vehicle EXCEPT !.visible = ~underHigherRoad]

\* getCandidateEntryLanes: the lanes of the road that no lane links to.
getCandidateEntryLanes(lanes, roadId) ==
    LET referencedLaneIds == UNION {LinksOf(lanes[i]) : i \in 1..Len(lanes)}
    IN  SelectSeq(lanes, LAMBDA l : l.roadId = roadId /\ l.id \notin referencedLaneIds)

\* roadTrafficSettings[road.id] || the defaults
DefaultSettings == [inflow |-> DEFAULT_INFLOW_RATE,
                    turnProbability |-> DEFAULT_TURN_PROBABILITY]

\* Settings that are the defaults for every road, whatever has been set.
settingsOfDefaults(trafficSettings, roadId) == DefaultSettings

settingsOf(trafficSettings, roadId) ==
    IF roadId \in DOMAIN trafficSettings THEN trafficSettings[roadId]
    ELSE DefaultSettings

\* A choice that gives up when the first candidate is busy.
firstFreeLaneFirstOnly(candidates, vehicles, k) ==
    IF candidates = <<>> THEN Undefined
    ELSE IF \E i \in 1..Len(vehicles) :
               /\ CurrentLaneId(vehicles[i]) = candidates[1].id
               /\ vehicles[i].progress < SpawnClearance
    THEN Undefined
    ELSE candidates[1]

\* The first candidate with no vehicle within the threshold of its start.
RECURSIVE firstFreeLane(_, _, _)
firstFreeLane(candidates, vehicles, k) ==
    IF k > Len(candidates) THEN Undefined
    ELSE LET laneBusy == \E i \in 1..Len(vehicles) :
                 /\ CurrentLaneId(vehicles[i]) = candidates[k].id
                 /\ vehicles[i].progress < SpawnClearance
         IN  IF ~laneBusy THEN candidates[k]
             ELSE firstFreeLane(candidates, vehicles, k + 1)

(***************************************************************************)
(* random().  The engine draws from a linear congruential generator; the   *)
(* model takes what the draws of one road of one tick decide as an input:  *)
(*   attempt   random() < inflow                                           *)
(*   turn      random() < turnProbability                                  *)
(*   pick      Math.floor(random() * otherRoads.length), from 1            *)
(*   jitter    random() * 10 - 5                                           *)
(* random() is in [0, 1): an inflow of 0 is never attempted, an inflow of  *)
(* 1 always, and the same for the turn.                                    *)
(***************************************************************************)
JitterChoices == {-2 * Scale, 4 * Scale}
MaxRoads == 2

NoAttempt == [attempt |-> FALSE, turn |-> FALSE, pick |-> 1, jitter |-> 0]

Draws ==
    {NoAttempt} \cup
    [attempt : {TRUE}, turn : BOOLEAN, pick : 1..(MaxRoads - 1), jitter : JitterChoices]

\* Can random() give this draw under these settings ?
DrawPossible(draw, settings) ==
    /\ draw.attempt => settings.inflow > 0
    /\ ~draw.attempt => settings.inflow < ProbScale
    /\ (draw.attempt /\ draw.turn) => settings.turnProbability > 0
    /\ (draw.attempt /\ ~draw.turn) => settings.turnProbability < ProbScale

\* A vehicle spawned at its maximum speed.
newVehicleFullSpeed(counter, route, entryLane, road, targetRoad, globalSpeed, jitter, epoch) ==
    [id |-> counter,
     route |-> route,
     currentLaneIndex |-> 0,
     progress |-> 0,
     speed |-> globalSpeed + jitter,
     maxSpeed |-> globalSpeed + jitter,
     position |-> [x |-> entryLane.points[1].x, y |-> entryLane.points[1].y],
     sourceRoadId |-> road.id,
     targetRoadId |-> targetRoad.id,
     visible |-> TRUE,
     dimensions |-> VehicleDimensions,
     rotation |-> 0,
     stoppedSince |-> 0,
     born |-> epoch]

\* The vehicle that simulationStep spawns.  The id is the counter; the
\* engine writes it in decimal, which names each counter value differently.
newVehicle(counter, route, entryLane, road, targetRoad, globalSpeed, jitter, epoch) ==
    LET maxSpeed == globalSpeed + jitter
    IN  [id |-> counter,
         route |-> route,
         currentLaneIndex |-> 0,
         progress |-> 0,
         speed |-> MulDec(maxSpeed, 7, 10),
         maxSpeed |-> maxSpeed,
         position |-> [x |-> entryLane.points[1].x, y |-> entryLane.points[1].y],
         sourceRoadId |-> road.id,
         targetRoadId |-> targetRoad.id,
         visible |-> TRUE,
         dimensions |-> VehicleDimensions,
         rotation |-> 0,
         stoppedSince |-> 0,
         born |-> epoch]

\* Step 1 of simulationStep from road i on: the vehicles spawned and the
\* vehicle counter after it.
RECURSIVE spawnVehicles(_, _, _, _, _, _, _, _)
spawnVehicles(state, trafficSettings, globalSpeed, draws, epoch, i, counter, acc) ==
    IF i > Len(state.roads) THEN [vehicles |-> acc, counter |-> counter]
    ELSE
    LET road == state.roads[i]
        draw == draws[i]
        candidates == getCandidateEntryLanes(state.lanes, road.id)
        entryLane == firstFreeLane(candidates, state.vehicles, 1)
        otherRoads == SelectSeq(state.roads, LAMBDA r : r.id # road.id)
        targetRoad == IF draw.turn /\ Len(otherRoads) > 0
                      THEN otherRoads[((draw.pick - 1) % Len(otherRoads)) + 1]
                      ELSE road
        route == findRoute(state.lanes, entryLane.id, targetRoad.id)
    IN  IF ~draw.attempt \/ entryLane = Undefined
        THEN spawnVehicles(state, trafficSettings, globalSpeed, draws, epoch, i + 1,
                           counter, acc)
        ELSE IF route = NoRoute
        THEN spawnVehicles(state, trafficSettings, globalSpeed, draws, epoch, i + 1,
                           counter, acc)
        ELSE spawnVehicles(state, trafficSettings, globalSpeed, draws, epoch, i + 1,
                           counter + 1,
                           Append(acc, newVehicle(counter + 1, route, entryLane, road,
                                                  targetRoad, globalSpeed, draw.jitter,
                                                  epoch)))

\* Step 2 of simulationStep: every old vehicle updated against the old
\* vehicles, the finished ones dropped.
RECURSIVE updateAll(_, _, _, _, _, _)
updateAll(builtinRoads, oldVehicles, lanes, globalSpeed, i, acc) ==
    IF i > Len(oldVehicles) THEN acc
    ELSE LET kept(updated) == IF updated = Finished THEN acc ELSE Append(acc, updated)
         IN  updateAll(builtinRoads, oldVehicles, lanes, globalSpeed, i + 1,
                       kept(updateVehicle(builtinRoads, oldVehicles[i], lanes,
                                          oldVehicles, globalSpeed)))

\* A filter that drops a vehicle at or past the end of any lane of its route.
staysInSimulationAnyLane(vehicle, lanes) ==
    LET currentLane == findLane(lanes, CurrentLaneId(vehicle))
    IN  /\ currentLane # Undefined
        /\ vehicle.progress < computeLaneLength(currentLane)

\* Step 3 of simulationStep: does the vehicle stay ?
staysInSimulation(vehicle, lanes) ==
    LET currentLane == findLane(lanes, CurrentLaneId(vehicle))
    IN  /\ currentLane # Undefined
        /\ ~ (/\ vehicle.currentLaneIndex = Len(vehicle.route) - 1
              /\ vehicle.progress >= computeLaneLength(currentLane))

\* simulationStep, with the draws of this tick: the new state and counter.
simulationStep(builtinRoads, state, trafficSettings, globalSpeed, counter, draws, epoch) ==
    LET born == spawnVehicles(state, trafficSettings, globalSpeed, draws, epoch, 1,
                              counter, <<>>)
        updatedVehicles == updateAll(builtinRoads, state.vehicles, state.lanes,
                                     globalSpeed, 1, born.vehicles)
        shown(finalVehicles) ==
            [k \in 1..Len(finalVehicles) |->
                updateVehicleVisibility(finalVehicles[k], state.lanes, state.roads)]
    IN  [state |-> [roads |-> state.roads,
                    lanes |-> state.lanes,
                    vehicles |-> shown(SelectSeq(updatedVehicles,
                                    LAMBDA v : staysInSimulation(v, state.lanes)))],
         counter |-> born.counter]

(***************************************************************************)
(* loadInterchangeData.  A document is [roads, lines]; a line is           *)
(* [id, points, links, roadId], its links Undefined when the document      *)
(* gives it none.  Colors and names are left out.                          *)
(***************************************************************************)

\* The forEach over the lanes and, in each, over the three link keys, from
\* lane i and key k on.  newLanes[i] is { ...line, color }: a copy of the
\* line that shares the line's links object, so a link written here is
\* written into the document as well.  Reading a link of a lane without
\* links throws.
RECURSIVE createVirtualLanes(_, _, _, _)
createVirtualLanes(newLanes, virtualLanes, i, k) ==
    IF i > Len(newLanes)
    THEN [threw |-> FALSE, lanes |-> newLanes, virtualLanes |-> virtualLanes]
    ELSE IF k > Len(LinkKeys)
    THEN createVirtualLanes(newLanes, virtualLanes, i + 1, 1)
    ELSE
    LET lane == newLanes[i]
    IN  IF lane.links = Undefined
        THEN [threw |-> TRUE, lanes |-> newLanes, virtualLanes |-> virtualLanes]
        ELSE
        LET targetLaneId == lane.links[LinkKeys[k]]
            targetLane == findLane(newLanes, targetLaneId)
        IN  IF ~Truthy(targetLaneId) \/ targetLane = Undefined
            THEN createVirtualLanes(newLanes, virtualLanes, i, k + 1)
            ELSE
            LET virtualLaneId == "v" \o lane.id \o "to" \o targetLane.id
                sourceLastPoint == lane.points[Len(lane.points)]
                targetFirstPoint == targetLane.points[1]
                virtualLane ==
                    [id |-> virtualLaneId,
                     points |-> <<[sourceLastPoint EXCEPT !.visibility = 0],
                                  [targetFirstPoint EXCEPT !.visibility = 0]>>,
                     links |-> [forward |-> targetLane.id, forward_left |-> NoLane,
                                forward_right |-> NoLane],
                     roadId |-> NoRoad,
                     virtual |-> TRUE]
            IN  createVirtualLanes(
                    [newLanes EXCEPT ![i].links[LinkKeys[k]] = virtualLaneId],
                    Append(virtualLanes, virtualLane), i, k + 1)

\* loadInterchangeData(data): whether it threw, the state it returned, the
\* traffic settings it installed and the document as the call left it.  The
\* vehicle counter is reset before anything can throw.
loadInterchangeData(data) ==
    LET newRoads == data.roads
        newLanes == [i \in 1..Len(data.lines) |->
                        [id |-> data.lines[i].id,
                         points |-> data.lines[i].points,
                         links |-> data.lines[i].links,
                         roadId |-> data.lines[i].roadId,
                         virtual |-> FALSE]]
        made == createVirtualLanes(newLanes, <<>>, 1, 1)
    IN  [threw |-> made.threw,
         state |-> [roads |-> newRoads,
                    lanes |-> made.lanes \o made.virtualLanes,
                    vehicles |-> <<>>],
         settings |-> [id \in {newRoads[i].id : i \in 1..Len(newRoads)} |->
                          DefaultSettings],
         data |-> [data EXCEPT !.lines =
                      [i \in 1..Len(data.lines) |->
                          [data.lines[i] EXCEPT !.links = made.lanes[i].links]]]]


(***************************************************************************)
(* Networks.  The built-in network is data/diamond_interchange_final.json, *)
(* which the engine imports; the model has a small network in its place:   *)
(* road r1 with the lane a1 linked forward to the lane a2, whose start     *)
(* lies 2 units past the end of a1, and road r2 with the lane b1 that      *)
(* crosses a2, both roads on layer 0.                                      *)
(***************************************************************************)
Pt(x, y, visibility) == [x |-> x * Scale, y |-> y * Scale, visibility |-> visibility]

Road(id, zIndex, x, y, width, height) ==
    [id |-> id, zIndex |-> zIndex, x |-> x * Scale, y |-> y * Scale,
     width |-> width * Scale, height |-> height * Scale]

Line(id, points, links, roadId) ==
    [id |-> id, points |-> points, links |-> links, roadId |-> roadId]

interchange ==
    [roads |-> <<Road("r1", 0, 0, -5, 40, 10), Road("r2", 0, 25, -15, 10, 30)>>,
     lines |-> <<Line("a1", <<Pt(0, 0, 1), Pt(18, 0, 1)>>,
                      [NoLinks EXCEPT !.forward = "a2"], "r1"),
                 Line("a2", <<Pt(20, 0, 1), Pt(40, 0, 1)>>, NoLinks, "r1"),
                 Line("b1", <<Pt(30, -15, 1), Pt(30, 15, 1)>>, NoLinks, "r2")>>]

\* The module-level load of the built-in network (the same steps as
\* loadInterchangeData).
initialSimulationState == loadInterchangeData(interchange).state

loadedRoads == initialSimulationState.roads

\* A network a user uploads: road h2 is a bridge (layer 1) over road h1
\* (layer 0), and their lanes p1 and q1 overlap at (15, 0).
LayeredDocument ==
    [roads |-> <<Road("h1", 0, 0, -5, 30, 10), Road("h2", 1, 10, -15, 10, 30)>>,
     lines |-> <<Line("p1", <<Pt(0, 0, 1), Pt(30, 0, 1)>>, NoLinks, "h1"),
                 Line("q1", <<Pt(15, -15, 1), Pt(15, 15, 1)>>, NoLinks, "h2")>>]

\* An upload with a line that has no links.
BrokenDocument ==
    [roads |-> <<Road("h1", 0, 0, -5, 30, 10)>>,
     lines |-> <<Line("p1", <<Pt(0, 0, 1), Pt(30, 0, 1)>>, Undefined, "h1")>>]

\* What the data field of an 'interchange' message holds: a network (the
\* built-in file may be uploaded again), or nothing (null).
MessageData == {LayeredDocument, BrokenDocument, NoDocument, interchange}

\* The values a globalVehicleSpeedChange message carries (the slider goes
\* from 0 to 30; the engine starts at 10) and the settings a
\* roadSettingChange message carries.
SpeedChoices == {0}
SettingChoices == {[inflow |-> 0, turnProbability |-> ProbScale]}

\* Bounds of the exploration.
MaxVehicles == 2
MaxLoads == 1
MaxBackward == 300

(***************************************************************************)
(* The worker.                                                             *)
(***************************************************************************)
Init ==
    /\ currentState = initialSimulationState
    /\ isPaused = FALSE
    /\ currentGlobalVehicleSpeed = DEFAULT_VEHICLE_SPEED
    /\ roadTrafficSettings = NoSettings
    /\ vehicleCounter = 0
    /\ posted = NoPost
    /\ spawned = 0
    /\ handled = 0
    /\ lastLoaded = 0
    /\ prevTick = NoTick
    /\ ticks = 0
    /\ RouteIdle
    /\ LoadIdle
    /\ InstancesIdle
    /\ LifeIdle
    /\ PanelIdle

\* The stopped-tick counters as the model keeps them where a run may wait
\* for ever.  The engine reads a counter in three ways: > 0, > 5 and >=
\* against another vehicle's; taking one off every non-zero counter when
\* all of them are above DeadlockThreshold + 1 changes none of the three.
Window(vehicles) ==
    IF /\ \E i \in 1..Len(vehicles) : vehicles[i].stoppedSince > 0
       /\ \A i \in 1..Len(vehicles) :
             \/ vehicles[i].stoppedSince = 0
             \/ vehicles[i].stoppedSince > DeadlockThreshold + 1
    THEN [i \in 1..Len(vehicles) |->
             IF vehicles[i].stoppedSince = 0 THEN vehicles[i]
             ELSE [vehicles[i] EXCEPT !.stoppedSince = @ - 1]]
    ELSE vehicles

\* currentState = simulationStep(currentState); self.postMessage(currentState)
Step(window) ==
    \E draws \in [1..Len(currentState.roads) -> Draws] :
        /\ \A i \in 1..Len(currentState.roads) :
              /\ DrawPossible(draws[i],
                              settingsOf(roadTrafficSettings, currentState.roads[i].id))
              /\ draws[i].attempt => spawned < MaxVehicles
        /\ \A i \in 1..Len(currentState.vehicles) :
              currentState.vehicles[i].progress >= -MaxBackward
        /\ LET post(next, counter) ==
                   /\ spawned + (counter - vehicleCounter) <= MaxVehicles
                   /\ currentState' = next
                   /\ vehicleCounter' = counter
                   /\ spawned' = spawned + (counter - vehicleCounter)
                   /\ posted' = [by |-> "tick", vehicles |-> next.vehicles,
                                 handled |-> handled, lastLoaded |-> lastLoaded,
                                 replaced |-> 0]
                   /\ prevTick' = [vehicles |-> currentState.vehicles,
                                   globalSpeed |-> currentGlobalVehicleSpeed]
               step(out) ==
                   post(IF window THEN [out.state EXCEPT !.vehicles = Window(@)]
                        ELSE out.state,
                        out.counter)
           IN  step(simulationStep(loadedRoads, currentState, roadTrafficSettings,
                                   currentGlobalVehicleSpeed, vehicleCounter, draws,
                                   handled))
        /\ ticks' = 1 - ticks
        /\ UNCHANGED <<isPaused, currentGlobalVehicleSpeed, roadTrafficSettings,
                       handled, lastLoaded, routeVars, panelVars, loadVars, instanceVars>>

\* A callback that does not look at isPaused.
TimerTickAlways == Step(FALSE) /\ UNCHANGED life

\* The setInterval callback.
TimerTick ==
    IF isPaused THEN UNCHANGED vars ELSE Step(FALSE) /\ UNCHANGED life

\* onmessage: 'pause' and 'resume'
Pause ==
    /\ isPaused' = TRUE
    /\ UNCHANGED <<currentState, currentGlobalVehicleSpeed, roadTrafficSettings,
                   vehicleCounter, posted, spawned, handled, lastLoaded, prevTick,
                   ticks, routeVars, panelVars, loadVars, instanceVars, life>>

Resume ==
    /\ isPaused' = FALSE
    /\ UNCHANGED <<currentState, currentGlobalVehicleSpeed, roadTrafficSettings,
                   vehicleCounter, posted, spawned, handled, lastLoaded, prevTick,
                   ticks, routeVars, panelVars, loadVars, instanceVars, life>>

\* roadTrafficSettings[roadId] = settings
updateRoadTrafficSettings(trafficSettings, roadId, settings) ==
    [id \in DOMAIN trafficSettings \cup {roadId} |->
        IF id = roadId THEN settings ELSE trafficSettings[id]]

\* roadSettings[road.id] || { inflow: 0.2, turnProbability: 0.25 }: what the
\* panel shows for a road.
shownSettings(panel, roadId) ==
    IF roadId \in DOMAIN panel THEN panel[roadId]
    ELSE [inflow |-> MulDec(ProbScale, 20, 100),
          turnProbability |-> MulDec(ProbScale, 25, 100)]

\* handleRoadSettingChange of the page, which keeps the settings for the
\* panel and posts them, and onmessage of the worker:
\* { type: 'roadSettingChange', roadId, settings }
RoadSettingChange(roadId, settings) ==
    /\ roadSettings' = updateRoadTrafficSettings(roadSettings, roadId, settings)
    /\ roadTrafficSettings' =
          updateRoadTrafficSettings(roadTrafficSettings, roadId, settings)
    /\ UNCHANGED <<currentState, isPaused, currentGlobalVehicleSpeed, vehicleCounter,
                   posted, spawned, handled, lastLoaded, prevTick, ticks, routeVars,
                   loadVars, instanceVars, life>>

\* onmessage: { type: 'globalVehicleSpeedChange', newSpeed }, with
\* setGlobalVehicleSpeed
GlobalVehicleSpeedChange(newSpeed) ==
    /\ currentGlobalVehicleSpeed' = newSpeed
    /\ UNCHANGED <<currentState, isPaused, roadTrafficSettings, vehicleCounter,
                   posted, spawned, handled, lastLoaded, prevTick, ticks, routeVars, panelVars,
                   loadVars, instanceVars, life>>

\* An 'interchange' handler that carries the vehicles over.
InterchangeKeepVehicles(data) ==
    /\ handled < MaxLoads
    /\ data # NoDocument
    /\ ~loadInterchangeData(data).threw
    /\ handled' = handled + 1
    /\ currentState' = [loadInterchangeData(data).state EXCEPT
                           !.vehicles = currentState.vehicles]
    /\ roadTrafficSettings' = loadInterchangeData(data).settings
    /\ vehicleCounter' = 0
    /\ lastLoaded' = handled + 1
    /\ posted' = [by |-> "load", vehicles |-> currentState.vehicles,
                  handled |-> handled + 1, lastLoaded |-> handled + 1,
                  replaced |-> Len(currentState.vehicles)]
    /\ prevTick' = NoTick
    /\ UNCHANGED <<isPaused, currentGlobalVehicleSpeed, spawned, ticks, routeVars, panelVars,
                   loadVars, instanceVars, life>>

\* onmessage: { type: 'interchange', data }.  The message holds a copy of the
\* sender's document.  isPaused is set for the load and restored after it.
Interchange(data) ==
    /\ handled < MaxLoads
    /\ handled' = handled + 1
    /\ IF data = NoDocument
       THEN UNCHANGED <<currentState, roadTrafficSettings, vehicleCounter, posted,
                        lastLoaded, prevTick>>
       ELSE LET loaded == loadInterchangeData(data)
            IN  IF loaded.threw
                THEN /\ vehicleCounter' = 0
                     /\ UNCHANGED <<currentState, roadTrafficSettings, posted,
                                    lastLoaded, prevTick>>
                ELSE /\ currentState' = loaded.state
                     /\ roadTrafficSettings' = loaded.settings
                     /\ vehicleCounter' = 0
                     /\ lastLoaded' = handled + 1
                     /\ posted' = [by |-> "load", vehicles |-> loaded.state.vehicles,
                                   handled |-> handled + 1, lastLoaded |-> handled + 1,
                                   replaced |-> Len(currentState.vehicles)]
                     /\ prevTick' = NoTick
    /\ UNCHANGED <<isPaused, currentGlobalVehicleSpeed, spawned, ticks, routeVars, panelVars,
                   loadVars, instanceVars, life>>

RoadIds(state) == {state.roads[i].id : i \in 1..Len(state.roads)}

Next ==
    \/ TimerTick
    \/ Pause
    \/ Resume
    \/ \E roadId \in RoadIds(currentState), settings \in SettingChoices :
          RoadSettingChange(roadId, settings)
    \/ \E newSpeed \in SpeedChoices : GlobalVehicleSpeedChange(newSpeed)
    \/ \E data \in MessageData : Interchange(data)

Spec == Init /\ [][Next]_vars


(***************************************************************************)
(* Arrangements of vehicles.  simulationStep takes any state; the          *)
(* arrangements are on a loaded network with two lanes of layer 0:         *)
(*   s1 along y = 0 from (-20, 0) to (130, 0), road r1                     *)
(*   s2 from (-30, -60) to (90, 30), road r2, which crosses s1 at (50, 0)  *)
(* Vehicle V is on s1 at (0, 0); X, if there, is on s1 30, 40 or 48 units  *)
(* ahead of V; W, if there, is on s2 at (10, -30), 50 units before the     *)
(* crossing, or, without X, 25 units farther back.  Each is stopped for    *)
(* some ticks or moving; X and W have a top                                *)
(* speed of 10, V of 10 or of 0 (and X alone 30 units ahead of V also of   *)
(* 0, which stands for the global speed).  No road has inflow.             *)
(***************************************************************************)
ArrangementDocument ==
    [roads |-> <<Road("r1", 0, -20, -5, 150, 10), Road("r2", 0, -30, -60, 120, 90)>>,
     lines |-> <<Line("s1", <<Pt(-20, 0, 1), Pt(130, 0, 1)>>, NoLinks, "r1"),
                 Line("s2", <<Pt(-30, -60, 1), Pt(90, 30, 1)>>, NoLinks, "r2")>>]

ArrangementState == loadInterchangeData(ArrangementDocument).state

\* speed and stoppedSince: a vehicle that moves has the counter 0.
StatusChoices ==
    {[speed |-> 0, stoppedSince |-> c] : c \in {1, 2, 3, 6}}
    \cup {[speed |-> 5 * Scale, stoppedSince |-> 0]}

TopSpeedChoices == {0, 10 * Scale}

placedVehicle(id, laneId, roadId, progress, status, maxSpeed) ==
    LET pos == getPositionAndVisibilityOnLane(findLane(ArrangementState.lanes, laneId),
                                              progress)
    IN  [id |-> id,
         route |-> <<laneId>>,
         currentLaneIndex |-> 0,
         progress |-> progress,
         speed |-> status.speed,
         maxSpeed |-> maxSpeed,
         position |-> [x |-> pos.x, y |-> pos.y],
         sourceRoadId |-> roadId,
         targetRoadId |-> roadId,
         visible |-> TRUE,
         dimensions |-> VehicleDimensions,
         rotation |-> pos.rotation,
         stoppedSince |-> status.stoppedSince,
         born |-> 0]

\* The places of X and of W; 0 for a vehicle that is not there.
PlacesX == {0, 50 * Scale, 60 * Scale, 68 * Scale}
\* W at 25 is 46 units from V; it is tried without X, and there W may have
\* waited longer than any other vehicle.
PlacesW == {0, 25 * Scale, 50 * Scale}

\* V, then X and W if they are there, with the ids 1, 2, ... in this order.
arrangement(statusV, topV, placeX, statusX, topX, placeW, statusW, topW) ==
    LET v == <<placedVehicle(1, "s1", "r1", 20 * Scale, statusV, topV)>>
        x == IF placeX = 0 THEN <<>>
             ELSE <<placedVehicle(2, "s1", "r1", placeX, statusX, topX)>>
        w == IF placeW = 0 THEN <<>>
             ELSE <<placedVehicle(Len(x) + 2, "s2", "r2", placeW, statusW, topW)>>
    IN  v \o x \o w

InitArrangement ==
    /\ \E statusV \in StatusChoices, topV \in TopSpeedChoices,
          placeX \in PlacesX,
          placeW \in PlacesW :
          \E statusX \in (IF placeX = 0 THEN {CHOOSE st \in StatusChoices : TRUE}
                          ELSE StatusChoices),
             topX \in (IF placeX = 50 * Scale /\ placeW = 0 THEN TopSpeedChoices
                       ELSE {10 * Scale}),
             statusW \in (IF placeW = 0 THEN {CHOOSE st \in StatusChoices : TRUE}
                          ELSE IF placeW = 25 * Scale
                          THEN StatusChoices
                               \cup {[speed |-> 0,
                                      stoppedSince |-> DeadlockThreshold + 2]}
                          ELSE StatusChoices),
             topW \in {10 * Scale} :
             /\ placeW = 25 * Scale => placeX = 0
             /\ currentState = [ArrangementState EXCEPT !.vehicles =
                    arrangement(statusV, topV, placeX, statusX, topX,
                                placeW, statusW, topW)]
             /\ vehicleCounter = Len(currentState.vehicles)
             /\ spawned = 0
    /\ currentGlobalVehicleSpeed \in {0, DEFAULT_VEHICLE_SPEED}
    /\ roadTrafficSettings = [id \in RoadIds(ArrangementState) |->
                                 [inflow |-> 0, turnProbability |-> 0]]
    /\ isPaused = FALSE
    /\ posted = NoPost
    /\ handled = 0
    /\ lastLoaded = 0
    /\ prevTick = NoTick
    /\ ticks = 0
    /\ RouteIdle
    /\ LoadIdle
    /\ InstancesIdle
    /\ LifeIdle
    /\ PanelIdle

ArrangementTick == Step(TRUE) /\ UNCHANGED life

\* setInterval: the timer fires again and again, and each firing runs the
\* callback, which is the only step there is and which turns ticks over.
TimerFires == ticks' = 1 - ticks

SpecArrangement ==
    InitArrangement /\ [][ArrangementTick]_vars /\ WF_ticks(TimerFires)

(***************************************************************************)
(* A caller that loads its document object twice.                          *)
(***************************************************************************)
MaxCalls == 2

\* The documents: the lines a, b and c of road r1, with at most MaxLinks
\* links among them or to a lane that is not there.
lineOf(lanes, i) ==
    Line(lanes[i].id, <<Pt(50 * i, 0, 1), Pt(50 * i + 40, 0, 1)>>, lanes[i].links,
         lanes[i].roadId)

\* A document with a lane whose id is the id that the connector from a to b
\* gets.
NamesakeDocument ==
    [roads |-> <<Road("r1", 0, 0, -5, 200, 10)>>,
     lines |-> <<Line("a", <<Pt(50, 0, 1), Pt(90, 0, 1)>>,
                      [NoLinks EXCEPT !.forward = "b"], "r1"),
                 Line("b", <<Pt(100, 0, 1), Pt(140, 0, 1)>>, NoLinks, "r1"),
                 Line("vatob", <<Pt(150, 0, 1), Pt(190, 0, 1)>>, NoLinks, "r1")>>]

InitLoad ==
    /\ \/ \E S \in SlotSets :
             \E f \in [S -> RouteLaneIds \cup {GhostLane}] :
                document =
                   [roads |-> <<Road("r1", 0, 0, -5, 200, 10)>>,
                    lines |-> [i \in 1..NumRouteLanes |->
                        lineOf(BuildLanes(S, f, [j \in 1..NumRouteLanes |-> "r1"]), i)]]
       \/ document = NamesakeDocument
    /\ results = <<>>
    /\ EngineIdle
    /\ RouteIdle
    /\ InstancesIdle
    /\ LifeIdle
    /\ PanelIdle

\* results.push(loadInterchangeData(document))
CallLoad ==
    /\ Len(results) < MaxCalls
    /\ LET loaded == loadInterchangeData(document)
       IN  /\ results' = Append(results, loaded.state)
           /\ document' = loaded.data
           /\ roadTrafficSettings' = loaded.settings
           /\ vehicleCounter' = 0
    /\ UNCHANGED <<currentState, isPaused, currentGlobalVehicleSpeed, posted, spawned,
                   handled, lastLoaded, prevTick, ticks, routeVars, panelVars, instanceVars,
                   life>>

SpecLoad == InitLoad /\ [][CallLoad]_vars


(***************************************************************************)
(* Properties of the snapshots.                                            *)
(***************************************************************************)

\* The vehicles of the current snapshot, and those the last simulationStep
\* was given.
NowVehicles == currentState.vehicles
PrevVehicles == prevTick.vehicles

\* What vehicle i of the last input perceived, and the speed updateVehicle
\* resolved for it.
PrevNear(i) == Perceive(loadedRoads, PrevVehicles[i], currentState.lanes, PrevVehicles)

PrevResolved(i) ==
    ResolvedSpeed(PrevVehicles[i], PrevNear(i), PrevVehicles, prevTick.globalSpeed)

\* The speed that vehicle i of the last input has in the current snapshot,
\* if it is still there.
NowSpeeds(i) ==
    {NowVehicles[j].speed : j \in {k \in 1..Len(NowVehicles) :
                                     NowVehicles[k].id = PrevVehicles[i].id}}

\* C3: in every snapshot, every vehicle's progress is at least 0 and at most
\* the length of the lane at route[currentLaneIndex].
C3_ProgressWithinLane ==
    \A i \in 1..Len(NowVehicles) :
        LET lane == findLane(currentState.lanes, CurrentLaneId(NowVehicles[i]))
        IN  lane # Undefined =>
               /\ NowVehicles[i].progress >= 0
               /\ NowVehicles[i].progress <= computeLaneLength(lane)

\* C4: a vehicle that is in two consecutive snapshots has not moved
\* backward: its (currentLaneIndex, progress), compared lexicographically,
\* has not decreased.
C4_NoRegression ==
    prevTick # NoTick =>
        \A i \in 1..Len(PrevVehicles), j \in 1..Len(NowVehicles) :
            NowVehicles[j].id = PrevVehicles[i].id =>
                \/ NowVehicles[j].currentLaneIndex > PrevVehicles[i].currentLaneIndex
                \/ /\ NowVehicles[j].currentLaneIndex = PrevVehicles[i].currentLaneIndex
                   /\ NowVehicles[j].progress >= PrevVehicles[i].progress

\* Vehicles i and j of the last input are on lanes of roads of one layer,
\* each is the nearest vehicle the other perceives, as a crossing vehicle
\* inside the hard-stop gap, and both are stopped with the same counter.
SymmetricCrossingBlock(i, j) ==
    LET vi == PrevVehicles[i]
        vj == PrevVehicles[j]
        li == findLane(currentState.lanes, CurrentLaneId(vi))
        lj == findLane(currentState.lanes, CurrentLaneId(vj))
        facing(nearI, nearJ) ==
            /\ nearI.leadVehicle = j /\ nearI.isCrossing
            /\ 2 * nearI.distance < safeDistanceOf(vi)
            /\ nearJ.leadVehicle = i /\ nearJ.isCrossing
            /\ 2 * nearJ.distance < safeDistanceOf(vj)
    IN  /\ i # j
        /\ vi.speed = 0 /\ vj.speed = 0
        /\ vi.stoppedSince = vj.stoppedSince
        /\ li # Undefined /\ lj # Undefined
        /\ findRoad(currentState.roads, li.roadId) # Undefined
        /\ findRoad(currentState.roads, lj.roadId) # Undefined
        /\ findRoad(currentState.roads, li.roadId).zIndex
             = findRoad(currentState.roads, lj.roadId).zIndex
        /\ facing(PrevNear(i), PrevNear(j))

PrevTopSpeed(i) == MaxSpeedOr(PrevVehicles[i], prevTick.globalSpeed)

\* C5, as the engine has it: two vehicles that block each other
\* symmetrically at a crossing, with equal counters above the deadlock
\* threshold, both get a non-zero resolved speed on the very next tick,
\* provided the top speed of each (maxSpeed, or the global speed for a
\* maxSpeed of 0) is not 0.
C5_SymmetricRelease ==
    prevTick # NoTick =>
        \A i, j \in 1..Len(PrevVehicles) :
            (/\ PrevVehicles[i].stoppedSince > DeadlockThreshold
             /\ PrevTopSpeed(i) # 0 /\ PrevTopSpeed(j) # 0
             /\ SymmetricCrossingBlock(i, j))
            => /\ PrevResolved(i) # 0
               /\ PrevResolved(j) # 0
               /\ 0 \notin NowSpeeds(i)
               /\ 0 \notin NowSpeeds(j)

\* Two such vehicles went through a tick and both are moving.
C5_Witness ==
    /\ prevTick # NoTick
    /\ \E i, j \in 1..Len(PrevVehicles) :
          /\ PrevVehicles[i].stoppedSince > DeadlockThreshold
          /\ PrevTopSpeed(i) # 0 /\ PrevTopSpeed(j) # 0
          /\ SymmetricCrossingBlock(i, j)
          /\ \E k, l \in 1..Len(NowVehicles) :
                /\ NowVehicles[k].id = PrevVehicles[i].id /\ NowVehicles[k].speed # 0
                /\ NowVehicles[l].id = PrevVehicles[j].id /\ NowVehicles[l].speed # 0

\* C5 as the claim has it: whatever the top speeds, both vehicles get a
\* non-zero resolved speed on the tick after their equal counters exceed the
\* deadlock threshold.
C5_AsClaimed ==
    prevTick # NoTick =>
        \A i, j \in 1..Len(PrevVehicles) :
            (/\ PrevVehicles[i].stoppedSince > DeadlockThreshold
             /\ SymmetricCrossingBlock(i, j))
            => /\ PrevResolved(i) # 0
               /\ PrevResolved(j) # 0

\* Every vehicle of the snapshot has a top speed (maxSpeed, or the global
\* speed for a maxSpeed of 0) that is not 0: none of them is parked.
AllCanMove ==
    \A i \in 1..Len(NowVehicles) :
        MaxSpeedOr(NowVehicles[i], currentGlobalVehicleSpeed) # 0

\* The vehicle with this id is in the snapshot with the speed 0.
Held(id) ==
    \E i \in 1..Len(NowVehicles) :
        NowVehicles[i].id = id /\ NowVehicles[i].speed = 0

\* C6: no vehicle keeps the speed 0 for ever: where no vehicle is parked,
\* each vehicle that is stopped is, at some later tick, moving or gone.
C6_NoStarvation ==
    \A id \in 1..3 : (AllCanMove /\ Held(id)) ~> ~Held(id)

\* The progress values tried on each lane.
ProgressSamples == {0, 5 * Scale, 10 * Scale}

\* C7: for the network being simulated, checkLanesCrossing is false for
\* every two lanes whose owning roads have different zIndex, at every
\* progress, and no vehicle on one is a crossing vehicle of a vehicle on the
\* other.
C7_GradeSeparation ==
    \A a, b \in 1..Len(currentState.lanes) :
        LET roadA == findRoad(currentState.roads, currentState.lanes[a].roadId)
            roadB == findRoad(currentState.roads, currentState.lanes[b].roadId)
        IN  (roadA # Undefined /\ roadB # Undefined /\ roadA.zIndex # roadB.zIndex)
            => /\ \A p1, p2 \in ProgressSamples :
                     ~checkLanesCrossing(loadedRoads, currentState.lanes[a],
                                         currentState.lanes[b], p1, p2)
               /\ \A i, j \in 1..Len(NowVehicles) :
                     (/\ CurrentLaneId(NowVehicles[i]) = currentState.lanes[a].id
                      /\ CurrentLaneId(NowVehicles[j]) = currentState.lanes[b].id)
                     => j \notin Range(getBlockingVehicles(loadedRoads, NowVehicles[i],
                                          NowVehicles, currentState.lanes).crossingVehicles)

\* Vehicle i of the last input had, as the nearest vehicle it perceived, a
\* leader in its own lane with a gap below half the safe distance.
CloseBehindLeader(i) ==
    LET behind(near) ==
            /\ near.leadVehicle # 0
            /\ ~near.isCrossing
            /\ CurrentLaneId(PrevVehicles[near.leadVehicle])
                 = CurrentLaneId(PrevVehicles[i])
            /\ 2 * near.distance < safeDistanceOf(PrevVehicles[i])
    IN  behind(PrevNear(i))

\* C8: a vehicle whose nearest perceived vehicle is a leader in its own lane
\* with a gap below 0.5 x safeDistance has the resolved speed 0 on that tick,
\* whatever its speed and its stopped-tick counter.
C8_HardStopBehindLeader ==
    prevTick # NoTick =>
        \A i \in 1..Len(PrevVehicles) :
            CloseBehindLeader(i) =>
                /\ PrevResolved(i) = 0
                /\ NowSpeeds(i) \subseteq {0}

\* A vehicle stopped for longer than the deadlock threshold, 0.4 x
\* safeDistance behind a stationary leader, went through a tick and is
\* still stopped.
C8_Witness ==
    /\ prevTick # NoTick
    /\ \E i \in 1..Len(PrevVehicles) :
          /\ PrevVehicles[i].stoppedSince > DeadlockThreshold
          /\ CloseBehindLeader(i)
          /\ LET blocked(near) ==
                     /\ 10 * near.distance = 4 * safeDistanceOf(PrevVehicles[i])
                     /\ PrevVehicles[near.leadVehicle].speed = 0
             IN  blocked(PrevNear(i))
          /\ \E j \in 1..Len(NowVehicles) :
                NowVehicles[j].id = PrevVehicles[i].id /\ NowVehicles[j].speed = 0

\* C9: two loads of the same document give the same lanes: the same
\* connector lanes with the same ids, and the same rewritten links.
C9_RepeatableLoad ==
    Len(results) = 2 => results[1].lanes = results[2].lanes

RECURSIVE ReachableAvoiding(_, _, _)
ReachableAvoiding(lanes, seen, avoid) ==
    LET more == UNION {LinksOf(laneMapGet(lanes, id)) :
                         id \in {x \in seen : laneMapGet(lanes, x) # Undefined}}
    IN  IF more \subseteq seen \cup avoid THEN seen
        ELSE ReachableAvoiding(lanes, seen \cup (more \ avoid), avoid)

\* Does a link lead to an end lane of the target road on a way that stays
\* clear of the lanes of avoid ?
EndLaneVia(lanes, link, avoid, targetRoadId) ==
    /\ link \notin avoid
    /\ \E id \in ReachableAvoiding(lanes, {link}, avoid) :
          /\ laneMapGet(lanes, id) # Undefined
          /\ laneMapGet(lanes, id).roadId = targetRoadId
          /\ LinksOf(laneMapGet(lanes, id)) = {}

\* The position in LinkKeys of the first link of a lane that names next.
KeyTaken(lane, next) ==
    CHOOSE k \in 1..Len(LinkKeys) :
        /\ lane.links[LinkKeys[k]] = next
        /\ \A j \in 1..(k - 1) : lane.links[LinkKeys[j]] # next

\* C19: the route that findRoute returns is the first in the order forward,
\* forward_left, forward_right: where it leaves a lane through a link, no
\* link of that lane earlier in this order leads to an end lane of the target
\* road on a way clear of the lanes the route has already taken.
C19_LinkPriority ==
    (rQuery # <<>> /\ rRoute # NoRoute) =>
        \A i \in 1..(Len(rRoute) - 1) :
            LET lane == laneMapGet(rLanes, rRoute[i])
            IN  \A j \in 1..(KeyTaken(lane, rRoute[i + 1]) - 1) :
                    Truthy(lane.links[LinkKeys[j]]) =>
                        ~EndLaneVia(rLanes, lane.links[LinkKeys[j]],
                                    {rRoute[m] : m \in 1..i}, rQuery[2])

\* A route was returned that leaves its start lane through a later link
\* although the start lane has an earlier link to a lane that is there.
C19_Witness ==
    /\ rQuery # <<>>
    /\ Len(rRoute) >= 2
    /\ LET lane == laneMapGet(rLanes, rRoute[1])
       IN  \E j \in 1..(KeyTaken(lane, rRoute[2]) - 1) :
               /\ Truthy(lane.links[LinkKeys[j]])
               /\ laneMapGet(rLanes, lane.links[LinkKeys[j]]) # Undefined
               /\ lane.links[LinkKeys[j]] # rRoute[1]

\* The lanes the last call of findRoute expanded.
Expanded == findRouteExpansions(rLanes, rQuery[1], rQuery[2])

\* C20: a call of findRoute ends, on graphs with cycles, self-links and
\* links to lanes that are not there as on any other, and it expands no lane
\* twice: the lanes it expands are lanes of the graph, each at most once, so
\* at most as many as the graph has.
C20_EachLaneOnce ==
    rQuery # <<>> =>
        /\ \A i, j \in 1..Len(Expanded) : Expanded[i] = Expanded[j] => i = j
        /\ \A i \in 1..Len(Expanded) : laneMapGet(rLanes, Expanded[i]) # Undefined
        /\ Len(Expanded) <= Len(rLanes)

\* A search that returned nothing after it expanded a lane that links back
\* to a lane expanded before it or to itself, and a lane with a link to a
\* lane that is not there.
C20_Witness ==
    /\ rQuery # <<>>
    /\ rRoute = NoRoute
    /\ \E i, j \in 1..Len(Expanded) :
          i <= j /\ Expanded[i] \in LinksOf(laneMapGet(rLanes, Expanded[j]))
    /\ \E j \in 1..Len(Expanded) :
          GhostLane \in LinksOf(laneMapGet(rLanes, Expanded[j]))

(***************************************************************************)
(* Properties of the worker's timer and of what a tick leaves alone.       *)
(***************************************************************************)

\* C17: while the worker is paused no step of it runs simulationStep (ticks
\* stays) and, short of an 'interchange' message, the state and the last
\* posted snapshot stay as they are; a run of simulationStep happens only
\* when the worker is not paused, and it posts the one state it produced.
C17_PauseGatesTicks ==
    [][/\ isPaused =>
             /\ ticks' = ticks
             /\ handled' = handled =>
                   (currentState' = currentState /\ posted' = posted)
       /\ ticks' # ticks =>
             /\ ~isPaused
             /\ posted'.by = "tick"
             /\ posted'.vehicles = currentState'.vehicles
             /\ prevTick'.vehicles = currentState.vehicles]_vars

\* The worker is paused after a tick spawned a vehicle: a vehicle is there
\* that a further tick would move.
C17_Witness ==
    /\ isPaused
    /\ posted # NoPost
    /\ posted.by = "tick"
    /\ currentState.vehicles # <<>>

\* The same vehicle in two snapshots: the same id on the same network.
SameVehicle(v, w) == v.id = w.id /\ v.born = w.born

\* C18: a step changes no vehicle's id, route, source road, target road,
\* maximum speed or dimensions, for as long as the vehicle is in the
\* snapshot.
C18_FrameOfTick ==
    [][\A i \in 1..Len(currentState.vehicles) :
          \A j \in 1..Len(currentState'.vehicles) :
             SameVehicle(currentState.vehicles[i], currentState'.vehicles[j]) =>
                /\ currentState'.vehicles[j].route = currentState.vehicles[i].route
                /\ currentState'.vehicles[j].sourceRoadId
                     = currentState.vehicles[i].sourceRoadId
                /\ currentState'.vehicles[j].targetRoadId
                     = currentState.vehicles[i].targetRoadId
                /\ currentState'.vehicles[j].maxSpeed
                     = currentState.vehicles[i].maxSpeed
                /\ currentState'.vehicles[j].dimensions
                     = currentState.vehicles[i].dimensions]_vars

\* A tick has moved a vehicle on: it is in the snapshot before and after,
\* on another lane of its route, at another speed.
C18_Witness ==
    /\ prevTick # NoTick
    /\ \E i \in 1..Len(PrevVehicles) : \E j \in 1..Len(NowVehicles) :
          /\ SameVehicle(PrevVehicles[i], NowVehicles[j])
          /\ NowVehicles[j].currentLaneIndex # PrevVehicles[i].currentLaneIndex
          /\ NowVehicles[j].speed # PrevVehicles[i].speed


(***************************************************************************)
(* The scenarios.  The worker right after the 'interchange' message of a  *)
(* network in which only the road d1 has entry lanes, from where only the  *)
(* timer fires:                                                            *)
(*   direct   e1 (0,0)-(20,0) linked forward to e2 (20,0)-(40,0): the      *)
(*            endpoints coincide, the connector lane has the length 0      *)
(*   gap      u1 (0,0)-(20,0) linked forward to u2 (30,10)-(50,10): the    *)
(*            connector lane runs from (20,0) to (30,10)                   *)
(*   point    m1, the single point (0,0), linked forward to                *)
(*            m2 (0,0)-(20,0)                                              *)
(*   middle   k1 (0,0)-(20,0) linked forward to k2, the single point       *)
(*            (20,0), linked forward to k3 (20,0)-(40,0)                   *)
(*   behind   h1 (0,0)-(20,0) linked forward to h2, the single point       *)
(*            (40,0), 20 units farther on, which is linked forward to h3   *)
(*            (40,0)-(60,0): the connector to h2 is 20 units long          *)
(*   single   o1, the single point (0,0), with no link                     *)
(*   twin     w1 (0,0)-(40,0) and w2 (0,10)-(40,10), with no link: two     *)
(*            entry lanes of the road                                      *)
(*   fork     t1 (0,0)-(20,0) linked forward to t2 (20,0)-(40,0) of the    *)
(*            same road and forward_left to t3 (20,10)-(40,10), the lane   *)
(*            of a second road d2                                          *)
(*   dead     x1 (0,0)-(20,0) linked forward to x2 (20,0)-(40,0), which is *)
(*            linked forward to itself: the road has no end lane           *)
(*   under    n1 (0,0)-(20,0) linked forward to n2 (25,0)-(40,0), a lane   *)
(*            with no road, which is linked forward to n3 (45,0)-(60,0);   *)
(*            the road d2 of layer 1, with no lane, covers x from 22 to 43 *)
(* The road d1 keeps the default settings (inflow 0.2, turn probability    *)
(* 0.25), or a roadSettingChange message has set its inflow to 1 or its    *)
(* turn probability to 0 or to 1.                                          *)
(***************************************************************************)
ScenarioDocuments ==
    LET oneRoad(lines) == [roads |-> <<Road("d1", 0, 0, -5, 50, 20)>>, lines |-> lines]
        twoRoads(lines) == [roads |-> <<Road("d1", 0, 0, -5, 50, 10),
                                        Road("d2", 0, 20, 5, 30, 10)>>,
                            lines |-> lines]
        bridged(lines) == [roads |-> <<Road("d1", 0, 0, -5, 60, 10),
                                       Road("d2", 1, 22, -5, 21, 10)>>,
                           lines |-> lines]
        to(id) == [NoLinks EXCEPT !.forward = id]
    IN  {bridged(<<Line("n1", <<Pt(0, 0, 1), Pt(20, 0, 1)>>, to("n2"), "d1"),
                   Line("n2", <<Pt(25, 0, 1), Pt(40, 0, 1)>>, to("n3"), NoRoad),
                   Line("n3", <<Pt(45, 0, 1), Pt(60, 0, 1)>>, NoLinks, "d1")>>),
         oneRoad(<<Line("e1", <<Pt(0, 0, 1), Pt(20, 0, 1)>>, to("e2"), "d1"),
                   Line("e2", <<Pt(20, 0, 1), Pt(40, 0, 1)>>, NoLinks, "d1")>>),
         oneRoad(<<Line("u1", <<Pt(0, 0, 1), Pt(20, 0, 1)>>, to("u2"), "d1"),
                   Line("u2", <<Pt(30, 10, 1), Pt(50, 10, 1)>>, NoLinks, "d1")>>),
         oneRoad(<<Line("m1", <<Pt(0, 0, 1)>>, to("m2"), "d1"),
                   Line("m2", <<Pt(0, 0, 1), Pt(20, 0, 1)>>, NoLinks, "d1")>>),
         oneRoad(<<Line("k1", <<Pt(0, 0, 1), Pt(20, 0, 1)>>, to("k2"), "d1"),
                   Line("k2", <<Pt(20, 0, 1)>>, to("k3"), "d1"),
                   Line("k3", <<Pt(20, 0, 1), Pt(40, 0, 1)>>, NoLinks, "d1")>>),
         oneRoad(<<Line("h1", <<Pt(0, 0, 1), Pt(20, 0, 1)>>, to("h2"), "d1"),
                   Line("h2", <<Pt(40, 0, 1)>>, to("h3"), "d1"),
                   Line("h3", <<Pt(40, 0, 1), Pt(60, 0, 1)>>, NoLinks, "d1")>>),
         oneRoad(<<Line("o1", <<Pt(0, 0, 1)>>, NoLinks, "d1")>>),
         oneRoad(<<Line("w1", <<Pt(0, 0, 1), Pt(40, 0, 1)>>, NoLinks, "d1"),
                   Line("w2", <<Pt(0, 10, 1), Pt(40, 10, 1)>>, NoLinks, "d1")>>),
         twoRoads(<<Line("t1", <<Pt(0, 0, 1), Pt(20, 0, 1)>>,
                         [NoLinks EXCEPT !.forward = "t2", !.forward_left = "t3"], "d1"),
                    Line("t2", <<Pt(20, 0, 1), Pt(40, 0, 1)>>, NoLinks, "d1"),
                    Line("t3", <<Pt(20, 10, 1), Pt(40, 10, 1)>>, NoLinks, "d2")>>),
         oneRoad(<<Line("x1", <<Pt(0, 0, 1), Pt(20, 0, 1)>>, to("x2"), "d1"),
                   Line("x2", <<Pt(20, 0, 1), Pt(40, 0, 1)>>, to("x2"), "d1")>>)}

\* The settings of the road d1 in the scenarios.
ScenarioSettings ==
    {DefaultSettings,
     [DefaultSettings EXCEPT !.inflow = ProbScale],
     [DefaultSettings EXCEPT !.turnProbability = 0],
     [DefaultSettings EXCEPT !.turnProbability = ProbScale]}

\* The ticks a vehicle is followed for.
MaxLifeTicks == 14

\* vehicles.find(v => v.id === id)
vehicleById(vehicles, id) ==
    IF \E k \in 1..Len(vehicles) : vehicles[k].id = id
    THEN vehicles[CHOOSE k \in 1..Len(vehicles) : vehicles[k].id = id]
    ELSE Undefined

\* The record of the vehicles after a tick that made the snapshot `after`
\* and left the vehicle counter at `counter`.  For each id:
\*   first   the vehicle in the snapshot of the tick that spawned it
\*   ticks   the ticks that have updated it
\*   alone   no snapshot held another vehicle with it
\*   gone    a snapshot since its spawn was without it
\*   back    a snapshot held it after one that was without it
NextLife(old, after, counter) ==
    [id \in 1..counter |->
        LET now == vehicleById(after, id)
            others == \E k \in 1..Len(after) : after[k].id # id
        IN  IF id > Len(old)
            THEN [first |-> now, ticks |-> 0, alone |-> ~others,
                  gone |-> now = Undefined, back |-> FALSE]
            ELSE IF old[id].gone
            THEN [old[id] EXCEPT !.back = @ \/ now # Undefined]
            ELSE [old[id] EXCEPT !.ticks = @ + 1,
                                 !.alone = @ /\ (now = Undefined \/ ~others),
                                 !.gone = now = Undefined]]

InitScenario ==
    /\ \E data \in ScenarioDocuments :
          /\ currentState = loadInterchangeData(data).state
          /\ \E settings \in ScenarioSettings :
                roadTrafficSettings =
                    updateRoadTrafficSettings(loadInterchangeData(data).settings,
                                              "d1", settings)
    /\ currentGlobalVehicleSpeed \in {DEFAULT_VEHICLE_SPEED, 0}
    /\ isPaused = FALSE
    /\ vehicleCounter = 0
    /\ posted = [by |-> "load", vehicles |-> <<>>, handled |-> 1, lastLoaded |-> 1,
                 replaced |-> 0]
    /\ spawned = 0
    /\ handled = 1
    /\ lastLoaded = 1
    /\ prevTick = NoTick
    /\ ticks = 0
    /\ RouteIdle
    /\ LoadIdle
    /\ InstancesIdle
    /\ LifeIdle
    /\ PanelIdle

\* The setInterval callback of a worker that is not paused.
ScenarioTick ==
    /\ \A id \in 1..Len(life) : life[id].gone \/ life[id].ticks < MaxLifeTicks
    /\ Step(FALSE)
    /\ life' = NextLife(life, currentState'.vehicles, vehicleCounter')

SpecScenario == InitScenario /\ [][ScenarioTick]_vars


(***************************************************************************)
(* Malformed lanes                                                         *)
(***************************************************************************)

\* The current lane of the vehicle is there and has fewer than 2 points.
OnMalformedLane(vehicle, lanes) ==
    /\ findLane(lanes, CurrentLaneId(vehicle)) # Undefined
    /\ Len(findLane(lanes, CurrentLaneId(vehicle)).points) < 2

OnLastLane(vehicle) == vehicle.currentLaneIndex = Len(vehicle.route) - 1

\* The snapshot holds the vehicle with the lane index, progress, position
\* and speed it had.
HeldInPlace(vehicle, after) ==
    \E k \in 1..Len(after) :
        /\ after[k].id = vehicle.id
        /\ after[k].currentLaneIndex = vehicle.currentLaneIndex
        /\ after[k].progress = vehicle.progress
        /\ after[k].position = vehicle.position
        /\ after[k].speed = vehicle.speed

\* The vehicle that the tick from this state spawns, as it is pushed: on
\* the free entry lane of the road, at lane index 0 and progress 0.
SpawnedOn(state) ==
    LET entryLane == firstFreeLane(getCandidateEntryLanes(state.lanes, state.roads[1].id),
                                   state.vehicles, 1)
    IN  [route |-> findRoute(state.lanes, entryLane.id, state.roads[1].id),
         currentLaneIndex |-> 0]

\* C16 as amended: a vehicle that a tick finds on a lane of fewer than 2
\* points - in the snapshot it was given, or spawned by it - is in the
\* snapshot the tick returns, with lane index, progress, position and speed
\* unchanged, if that lane is not the last lane of its route.
C16_HeldUnlessLastLane ==
    [][ticks' # ticks =>
        /\ \A i \in 1..Len(currentState.vehicles) :
              (/\ OnMalformedLane(currentState.vehicles[i], currentState.lanes)
               /\ ~OnLastLane(currentState.vehicles[i]))
              => HeldInPlace(currentState.vehicles[i], currentState'.vehicles)
        /\ \A id \in (vehicleCounter + 1)..vehicleCounter' :
              (/\ OnMalformedLane(SpawnedOn(currentState), currentState.lanes)
               /\ ~OnLastLane(SpawnedOn(currentState)))
              => /\ life'[id].first # Undefined
                 /\ life'[id].first.currentLaneIndex = 0
                 /\ life'[id].first.progress = 0]_vars

\* A vehicle that a tick has moved onto a malformed lane in the middle of
\* its route, held there by the ticks after it.
C16_Witness ==
    /\ prevTick # NoTick
    /\ \E i \in 1..Len(prevTick.vehicles) :
          /\ OnMalformedLane(prevTick.vehicles[i], currentState.lanes)
          /\ prevTick.vehicles[i].currentLaneIndex > 0
          /\ prevTick.vehicles[i].speed > 0
          /\ HeldInPlace(prevTick.vehicles[i], currentState.vehicles)

\* C16 as claimed: the same, whichever position the lane has in the route.
C16_HeldInPlace ==
    [][ticks' # ticks =>
        /\ \A i \in 1..Len(currentState.vehicles) :
              OnMalformedLane(currentState.vehicles[i], currentState.lanes)
              => HeldInPlace(currentState.vehicles[i], currentState'.vehicles)
        /\ \A id \in (vehicleCounter + 1)..vehicleCounter' :
              OnMalformedLane(SpawnedOn(currentState), currentState.lanes)
              => life'[id].first # Undefined]_vars


(***************************************************************************)
(* Headings                                                                *)
(***************************************************************************)

\* The heading (in degrees) of the segment of a lane that ends at point i.
SegmentHeading(lane, i) ==
    Atan2(lane.points[i].y - lane.points[i - 1].y,
          lane.points[i].x - lane.points[i - 1].x)

\* The vehicle is on the connector lane between two lanes of its route,
\* each with a segment.
InGap(vehicle, lanes) ==
    /\ vehicle.currentLaneIndex > 0
    /\ vehicle.currentLaneIndex < Len(vehicle.route) - 1
    /\ findLane(lanes, CurrentLaneId(vehicle)).virtual
    /\ Len(findLane(lanes, RouteAt(vehicle, vehicle.currentLaneIndex - 1)).points) >= 2
    /\ Len(findLane(lanes, RouteAt(vehicle, vehicle.currentLaneIndex + 1)).points) >= 2

\* C15: the heading of a vehicle in the gap between two linked lanes lies
\* between the heading of the last segment of the source lane and the
\* heading of the first segment of the target lane.
C15_HeadingWithinBounds ==
    \A i \in 1..Len(currentState.vehicles) :
        LET vehicle == currentState.vehicles[i]
            between(from, to) ==
                /\ Min(from, to) <= vehicle.rotation
                /\ vehicle.rotation <= Max(from, to)
            source == findLane(currentState.lanes,
                               RouteAt(vehicle, vehicle.currentLaneIndex - 1))
            target == findLane(currentState.lanes,
                               RouteAt(vehicle, vehicle.currentLaneIndex + 1))
        IN  InGap(vehicle, currentState.lanes)
            => between(SegmentHeading(source, Len(source.points)),
                       SegmentHeading(target, 2))


(***************************************************************************)
(* The time a route takes                                                  *)
(***************************************************************************)

\* The sum of the lengths of the lanes of a route.
RECURSIVE RouteLength(_, _)
RouteLength(route, lanes) ==
    IF route = <<>> THEN 0
    ELSE computeLaneLength(findLane(lanes, Head(route))) + RouteLength(Tail(route), lanes)

\* Math.ceil(a / b) for a >= 0 and b > 0.
CeilDiv(a, b) == (a + b - 1) \div b

\* A vehicle spawned on e1 (linked forward to the end lane e2 of the same
\* road, with coinciding endpoints) that no snapshot held together with
\* another vehicle.
LoneOnDirect(id) ==
    /\ life[id].first # Undefined
    /\ Head(life[id].first.route) = "e1"
    /\ life[id].alone

OrderDocument ==
    [roads |-> ArrangementDocument.roads \o <<Road("r3", 0, -30, -30, 120, 90)>>,
     lines |-> ArrangementDocument.lines
               \o <<Line("s3", <<Pt(-30, 60, 1), Pt(90, -30, 1)>>, NoLinks, "r3")>>]

OrderState == loadInterchangeData(OrderDocument).state

\* A vehicle of the order arrangement: the one of the arrangements, or the
\* same on s3.
orderedVehicle(id, laneId, roadId, progress, status, maxSpeed) ==
    IF laneId # "s3" THEN placedVehicle(id, laneId, roadId, progress, status, maxSpeed)
    ELSE LET pos == getPositionAndVisibilityOnLane(findLane(OrderState.lanes, laneId),
                                                   progress)
         IN  [placedVehicle(id, "s2", roadId, progress, status, maxSpeed) EXCEPT
                 !.route = <<laneId>>,
                 !.position = [x |-> pos.x, y |-> pos.y],
                 !.rotation = pos.rotation]

InitOrder ==
    /\ \E statusV \in {st \in StatusChoices : st.stoppedSince \in {0, 6}},
          statusW \in StatusChoices, statusU \in StatusChoices :
          currentState = [OrderState EXCEPT !.vehicles =
              <<orderedVehicle(1, "s1", "r1", 20 * Scale, statusV, 10 * Scale),
                orderedVehicle(2, "s2", "r2", 50 * Scale, statusW, 10 * Scale),
                orderedVehicle(3, "s3", "r3", 50 * Scale, statusU, 10 * Scale)>>]
    /\ vehicleCounter = 3
    /\ spawned = 0
    /\ currentGlobalVehicleSpeed = DEFAULT_VEHICLE_SPEED
    /\ roadTrafficSettings = [id \in RoadIds(OrderState) |->
                                 [inflow |-> 0, turnProbability |-> 0]]
    /\ isPaused = FALSE
    /\ posted = NoPost
    /\ handled = 0
    /\ lastLoaded = 0
    /\ prevTick = NoTick
    /\ ticks = 0
    /\ RouteIdle
    /\ LoadIdle
    /\ InstancesIdle
    /\ LifeIdle
    /\ PanelIdle

OrderTick == Step(TRUE) /\ UNCHANGED life

SpecOrder == InitOrder /\ [][OrderTick]_vars

\* The listings of the vehicles of a snapshot in every order.
Listings(vehicles) ==
    {[i \in 1..Len(vehicles) |-> vehicles[p[i]]] :
        p \in {q \in [1..Len(vehicles) -> 1..Len(vehicles)] :
                  \A i, j \in 1..Len(vehicles) : q[i] = q[j] => i = j}}

\* C13: the set of vehicle states that a tick produces is the same for
\* every order in which the vehicles of the previous snapshot are listed.
C13_OrderIndependent ==
    prevTick # NoTick =>
        \A listing \in Listings(prevTick.vehicles) :
            LET relisted(out) == Range(Window(out.state.vehicles))
            IN  relisted(simulationStep(loadedRoads,
                                        [currentState EXCEPT !.vehicles = listing],
                                        roadTrafficSettings, prevTick.globalSpeed,
                                        vehicleCounter,
                                        [i \in 1..Len(currentState.roads) |-> NoAttempt],
                                        handled))
                = Range(currentState.vehicles)


(***************************************************************************)
(* random() computed.  The seed is a number below 2^32 in absolute value,  *)
(* kept as a sign and two limbs of 16 bits: seed = +-(hi * 2^16 + lo).     *)
(* seed * 1664525 + 1013904223 is below 2^53, so the engine computes it    *)
(* exactly, and % keeps the sign of the dividend.                          *)
(*   1664525 = 25 * 2^16 + 26125,  1013904223 = 15470 * 2^16 + 62303       *)
(***************************************************************************)
Limb == 65536

\* A seed from a small number.
SeedOf(n) == [neg |-> n < 0, hi |-> Abs(n) \div Limb, lo |-> Abs(n) % Limb]

\* seed = (seed * 1664525 + 1013904223) % 4294967296
nextSeed(s) ==
    LET \* (hi * 2^16 + lo) * 1664525 + (ch * 2^16 + cl), modulo 2^32
        times(hi, lo, ch, cl) ==
            [neg |-> FALSE,
             hi |-> (hi * 26125 + lo * 25 + ch + (lo * 26125 + cl) \div Limb) % Limb,
             lo |-> (lo * 26125 + cl) % Limb]
        \* (m - 1013904223) modulo 2^32, negated
        minus(m) ==
            LET borrow == IF m.lo < 62303 THEN 1 ELSE 0
                hi == (m.hi + 2 * Limb - 15470 - borrow) % Limb
                lo == (m.lo + Limb - 62303) % Limb
            IN  [neg |-> hi # 0 \/ lo # 0, hi |-> hi, lo |-> lo]
    IN  IF ~s.neg THEN times(s.hi, s.lo, 15470, 62303)
        ELSE IF s.hi = 0 /\ s.lo * 1664525 <= 1013904223
        THEN SeedOf(1013904223 - s.lo * 1664525)
        ELSE minus(times(s.hi, s.lo, 0, 0))

\* random() < p, for the seed that random() has left and a probability p
\* (in units of 1 / ProbScale) that is not negative.
randomBelow(s, p) ==
    IF s.neg THEN TRUE
    ELSE s.hi * ProbScale + (s.lo * ProbScale) \div Limb < p * Limb

\* random() * 10 - 5, for the seed that random() has left.
randomJitter(s) ==
    LET tenfold == (s.hi * 10 * Scale + (s.lo * 10 * Scale) \div Limb) \div Limb
    IN  (IF s.neg THEN -tenfold ELSE tenfold) - 5 * Scale

\* The draws of one call of simulationStep on a network of one road (no
\* other road to turn to, so the draw of the target road is never made),
\* and the seed the call leaves: random() < inflow; with a free entry lane,
\* random() < turnProbability; with a route, random() * 10 - 5.
seededDraws(state, trafficSettings, s) ==
    LET road == state.roads[1]
        settings == settingsOf(trafficSettings, road.id)
        entryLane == firstFreeLane(getCandidateEntryLanes(state.lanes, road.id),
                                   state.vehicles, 1)
        s1 == nextSeed(s)
        s2 == nextSeed(s1)
        s3 == nextSeed(s2)
    IN  IF ~randomBelow(s1, settings.inflow) \/ entryLane = Undefined
        THEN [draws |-> <<NoAttempt>>, seed |-> s1]
        ELSE IF findRoute(state.lanes, entryLane.id, road.id) = NoRoute
        THEN [draws |-> <<[NoAttempt EXCEPT !.attempt = TRUE]>>, seed |-> s2]
        ELSE [draws |-> <<[attempt |-> TRUE,
                           turn |-> randomBelow(s2, settings.turnProbability),
                           pick |-> 1, jitter |-> randomJitter(s3)]>>,
              seed |-> s3]

(***************************************************************************)
(* A caller with two snapshots.  It loads a network of one road with the   *)
(* lane n1 from (0,0) to (40,0), calls setSeed and sets the inflow of the  *)
(* road, and then calls simulationStep on either snapshot, in any order.   *)
(* seed, vehicleCounter, roadTrafficSettings and currentGlobalVehicleSpeed *)
(* are variables of the engine module: every call reads and writes the     *)
(* same ones.  alone[i] is snapshot i, with a seed and a counter of its    *)
(* own, stepped whenever snapshot i is.                                    *)
(***************************************************************************)
MaxTicks == 5

SeededDocument ==
    [roads |-> <<Road("d1", 0, 0, -5, 40, 10)>>,
     lines |-> <<Line("n1", <<Pt(0, 0, 1), Pt(40, 0, 1)>>, NoLinks, "d1")>>]

\* setSeed(newSeed): the default 2, 0, 2^32 - 1 and two negative numbers.
SeedChoices ==
    {DefaultSeed, SeedOf(0), [neg |-> FALSE, hi |-> Limb - 1, lo |-> Limb - 1],
     SeedOf(-610), SeedOf(-100000)}

InflowChoices == {0, ProbScale}

InitSeeded ==
    /\ seed \in SeedChoices
    /\ worlds = [i \in 1..2 |-> loadInterchangeData(SeededDocument).state]
    /\ alone = [i \in 1..2 |-> [state |-> worlds[i], seed |-> seed, counter |-> 0]]
    /\ replay = NoReplay
    /\ \E inflow \in InflowChoices :
          roadTrafficSettings =
              updateRoadTrafficSettings(loadInterchangeData(SeededDocument).settings,
                  "d1", [inflow |-> inflow, turnProbability |-> DEFAULT_TURN_PROBABILITY])
    /\ currentGlobalVehicleSpeed = DEFAULT_VEHICLE_SPEED
    /\ vehicleCounter = 0
    /\ currentState = loadInterchangeData(SeededDocument).state
    /\ isPaused = TRUE
    /\ posted = NoPost
    /\ spawned = 0
    /\ handled = 0
    /\ lastLoaded = 0
    /\ prevTick = NoTick
    /\ ticks = 0
    /\ RouteIdle
    /\ LoadIdle
    /\ LifeIdle
    /\ PanelIdle

\* worlds[i] = simulationStep(worlds[i])
TickInstance(i) ==
    /\ ticks < MaxTicks
    /\ LET call(state, s, counter) ==
               [out |-> simulationStep(loadedRoads, state, roadTrafficSettings,
                                       currentGlobalVehicleSpeed, counter,
                                       seededDraws(state, roadTrafficSettings, s).draws,
                                       handled),
                seed |-> seededDraws(state, roadTrafficSettings, s).seed]
           shared == call(worlds[i], seed, vehicleCounter)
           private == call(alone[i].state, alone[i].seed, alone[i].counter)
       IN  /\ worlds' = [worlds EXCEPT ![i] = shared.out.state]
           /\ seed' = shared.seed
           /\ vehicleCounter' = shared.out.counter
           /\ spawned' = spawned + (shared.out.counter - vehicleCounter)
           /\ alone' = [alone EXCEPT ![i] = [state |-> private.out.state,
                                             seed |-> private.seed,
                                             counter |-> private.out.counter]]
    /\ ticks' = ticks + 1
    /\ UNCHANGED <<currentState, isPaused, currentGlobalVehicleSpeed,
                   roadTrafficSettings, posted, handled, lastLoaded, prevTick,
                   routeVars, panelVars, loadVars, life, replay>>

NextSeeded == \E i \in 1..2 : TickInstance(i)

SpecSeeded == InitSeeded /\ [][NextSeeded]_vars

\* C11: with an inflow of 0 on the road and no vehicle at the start, no
\* snapshot holds a vehicle after any number of calls, whatever the seed.
C11_NoInflowNoVehicles ==
    settingsOf(roadTrafficSettings, "d1").inflow = 0
    => \A i \in 1..2 : worlds[i].vehicles = <<>>

\* C14: every snapshot is what it would be if it had been stepped alone.
C14_InstancesIndependent ==
    \A i \in 1..2 : worlds[i] = alone[i].state


(***************************************************************************)
(* Connector lanes                                                         *)
(***************************************************************************)

\* Two points at the same place.
Coincide(p, q) == p.x = q.x /\ p.y = q.y

\* C21: in a loaded network a link leads to a connector lane exactly when
\* the last point of the source lane and the first point of the target lane
\* do not coincide: every connector spans a gap, and every link that points
\* at its target lane directly joins coinciding endpoints.
C21_ConnectorIffGap ==
    \A i \in 1..Len(currentState.lanes) :
        LET lane == currentState.lanes[i]
            joined(next) ==
                IF next.virtual
                THEN ~Coincide(next.points[1], next.points[2])
                ELSE Coincide(lane.points[Len(lane.points)], next.points[1])
        IN  (~lane.virtual /\ lane.links # Undefined) =>
                \A k \in 1..Len(LinkKeys) :
                    (/\ Truthy(lane.links[LinkKeys[k]])
                     /\ findLane(currentState.lanes, lane.links[LinkKeys[k]]) # Undefined)
                    => joined(findLane(currentState.lanes, lane.links[LinkKeys[k]]))


(***************************************************************************)
(* Spawning.  The networks of the scenarios have one road, so a tick makes *)
(* at most one spawn attempt and the vehicle counter tells its outcome.    *)
(***************************************************************************)

\* No vehicle of the snapshot is on the lane within the clearance threshold.
ClearEntry(lane, vehicles) ==
    \A i \in 1..Len(vehicles) :
        ~ (CurrentLaneId(vehicles[i]) = lane.id /\ vehicles[i].progress < SpawnClearance)

\* The entry lanes of the road of a scenario network.
EntryLanes(state) == Range(getCandidateEntryLanes(state.lanes, state.roads[1].id))

\* C22: a tick spawns a vehicle only on an entry lane of the road that is
\* clear in the previous snapshot; a spawn trial that succeeds (as it must
\* with an inflow of 1) spawns a vehicle whenever some entry lane is clear
\* (and leads to whichever road is drawn as the target), also when the
\* first one is busy; and with every entry lane busy no vehicle is spawned.
C22_SpawnOnClearEntryLane ==
    [][ticks' # ticks =>
        LET clear == {lane \in EntryLanes(currentState) :
                         ClearEntry(lane, currentState.vehicles)}
            routed(target) == {lane \in clear :
                                  findRoute(currentState.lanes, lane.id, target)
                                      # NoRoute}
        IN  /\ \A id \in (vehicleCounter + 1)..vehicleCounter' :
                  /\ \E target \in RoadIds(currentState) : routed(target) # {}
                  /\ life'[id].first # Undefined =>
                        \E lane \in clear :
                            /\ Head(life'[id].first.route) = lane.id
                            /\ life'[id].first.sourceRoadId = lane.roadId
            /\ (/\ settingsOf(roadTrafficSettings, currentState.roads[1].id).inflow
                      = ProbScale
                /\ \A target \in RoadIds(currentState) : routed(target) # {})
               => vehicleCounter' = vehicleCounter + 1
            /\ clear = {} => vehicleCounter' = vehicleCounter]_vars

\* A vehicle has been spawned on w2 while a vehicle on w1, the first entry
\* lane of the road, was within the clearance threshold.
C22_Witness ==
    /\ prevTick # NoTick
    /\ \E i \in 1..Len(prevTick.vehicles) :
          /\ CurrentLaneId(prevTick.vehicles[i]) = "w1"
          /\ prevTick.vehicles[i].progress < SpawnClearance
    /\ \E id \in 1..Len(life) :
          /\ life[id].ticks = 0
          /\ life[id].first # Undefined
          /\ Head(life[id].first.route) = "w2"
          /\ vehicleById(prevTick.vehicles, id) = Undefined


\* The vehicles that the snapshots of their spawn ticks held, by id.
Spawned == {id \in 1..Len(life) : life[id].first # Undefined}

\* C23: in the snapshot of the tick that spawns it a vehicle is at lane
\* index 0 with progress 0 and stopped counter 0, at the first point of its
\* entry lane, at 70% of its maximum speed, on a route that starts with an
\* entry lane of its source road and ends with an end lane of its target
\* road.
C23_SpawnedVehicle ==
    \A id \in Spawned :
        LET vehicle == life[id].first
            entryLane == findLane(currentState.lanes, Head(vehicle.route))
            lastLane == findLane(currentState.lanes, vehicle.route[Len(vehicle.route)])
        IN  /\ vehicle.currentLaneIndex = 0
            /\ vehicle.progress = 0
            /\ vehicle.stoppedSince = 0
            /\ entryLane \in Range(getCandidateEntryLanes(currentState.lanes,
                                                          vehicle.sourceRoadId))
            /\ vehicle.position = [x |-> entryLane.points[1].x,
                                   y |-> entryLane.points[1].y]
            /\ vehicle.speed = MulDec(vehicle.maxSpeed, 7, 10)
            /\ lastLane # Undefined
            /\ isEndLane(lastLane, vehicle.targetRoadId)

\* A vehicle spawned on a route of more than one lane, which later ticks
\* have moved.
C23_Witness ==
    \E id \in Spawned :
        /\ Len(life[id].first.route) > 1
        /\ life[id].first.maxSpeed > 0
        /\ life[id].ticks > 0

\* C24: the target road of a spawned vehicle is its source road when the
\* turn probability of the source road is 0 or the network has one road,
\* and another road when the turn probability is 1 and the network has two
\* roads or more.
C24_TargetRoad ==
    \A id \in Spawned :
        LET source == life[id].first.sourceRoadId
            target == life[id].first.targetRoadId
            turnProbability == roadTrafficSettings[source].turnProbability
            roads == RoadIds(currentState)
        IN  /\ target \in roads
            /\ target # source => (turnProbability > 0 /\ roads # {source})
            /\ (turnProbability = ProbScale /\ roads # {source}) => target # source

\* A vehicle spawned on the fork under a turn probability of 1: it turns to
\* the other road.
C24_Witness ==
    \E id \in Spawned :
        /\ roadTrafficSettings["d1"].turnProbability = ProbScale
        /\ life[id].first.sourceRoadId = "d1"
        /\ life[id].first.targetRoadId = "d2"
        /\ life[id].first.route = <<"t1", "vt1tot3", "t3">>

\* C25: a tick in which the spawn attempt of the road finds no clear entry
\* lane, or no end lane of any road reachable from the entry lane, adds no
\* vehicle and leaves the vehicle counter as it was.
C25_AbortedSpawn ==
    [][ticks' # ticks =>
        LET entryLane == firstFreeLane(getCandidateEntryLanes(currentState.lanes,
                                           currentState.roads[1].id),
                                       currentState.vehicles, 1)
            aborted ==
                \/ entryLane = Undefined
                \/ \A roadId \in RoadIds(currentState) :
                      ~EndLaneReachable(currentState.lanes, entryLane.id, roadId)
        IN  aborted =>
                /\ vehicleCounter' = vehicleCounter
                /\ Len(life') = Len(life)
                /\ \A k \in 1..Len(currentState'.vehicles) :
                      vehicleById(currentState.vehicles, currentState'.vehicles[k].id)
                          # Undefined]_vars

\* Ticks on the network without end lane, where every spawn trial succeeds
\* and finds the entry lane clear and without route.
C25_Witness ==
    /\ prevTick # NoTick
    /\ findLane(currentState.lanes, "x1") # Undefined
    /\ roadTrafficSettings["d1"].inflow = ProbScale
    /\ findRoute(currentState.lanes, "x1", "d1") = NoRoute
    /\ vehicleCounter = 0
    /\ currentState.vehicles = <<>>


(***************************************************************************)
(* The speed decisions of updateVehicle, over the arrangement.             *)
(***************************************************************************)

\* Vehicle i of the last input had its nearest perceived vehicle at a gap of
\* at least half the safe distance and below the safe distance, and the
\* deadlock escape was not tried for it: it is not both past the deadlock
\* threshold and facing a crossing vehicle.
InSafetyZone(i) ==
    LET within(near) ==
            /\ near.leadVehicle # 0
            /\ 2 * near.distance >= safeDistanceOf(PrevVehicles[i])
            /\ near.distance < safeDistanceOf(PrevVehicles[i])
            /\ ~(PrevVehicles[i].stoppedSince > DeadlockThreshold /\ near.isCrossing)
    IN  within(PrevNear(i))

\* 90% of the speed of the nearest vehicle that vehicle i perceived.
LeaderShare(i) == MulDec(PrevVehicles[PrevNear(i).leadVehicle].speed, 9, 10)

\* The speed of vehicle i less the deceleration step, not below 0.
Braked(i) == Max(0, PrevVehicles[i].speed - VEHICLE_DECELERATION)

Resolves(i) ==
    LET lane == findLane(currentState.lanes, CurrentLaneId(PrevVehicles[i]))
    IN  lane # Undefined /\ Len(lane.points) >= 2

\* C27: after every tick, the stopped-tick counter of a vehicle is its
\* previous counter plus one if its resolved speed in that tick is 0, and 0
\* otherwise; and in every snapshot a vehicle with a counter above 0 has
\* the speed 0.
C27_StoppedCounter ==
    /\ prevTick # NoTick =>
          \A i \in 1..Len(PrevVehicles), j \in 1..Len(NowVehicles) :
              (NowVehicles[j].id = PrevVehicles[i].id /\ Resolves(i)) =>
                  /\ NowVehicles[j].speed = PrevResolved(i)
                  /\ NowVehicles[j].stoppedSince =
                        IF PrevResolved(i) = 0
                        THEN PrevVehicles[i].stoppedSince + 1
                        ELSE 0
    /\ \A j \in 1..Len(NowVehicles) :
          NowVehicles[j].stoppedSince > 0 => NowVehicles[j].speed = 0

\* A vehicle that was stopped for two ticks or more went through a tick in
\* which its resolved speed was 0 again, and its counter is one higher.
C27_Witness ==
    /\ prevTick # NoTick
    /\ \E i \in 1..Len(PrevVehicles), j \in 1..Len(NowVehicles) :
          /\ NowVehicles[j].id = PrevVehicles[i].id
          /\ Resolves(i)
          /\ PrevVehicles[i].stoppedSince >= 2
          /\ PrevResolved(i) = 0
          /\ NowVehicles[j].speed = 0
          /\ NowVehicles[j].stoppedSince = PrevVehicles[i].stoppedSince + 1

\* Vehicle i of the last input is stopped past the deadlock threshold, and
\* the nearest vehicle it perceived, within the safe distance, is a crossing
\* vehicle that is stopped and has counted ticks.
BlockedAtCrossing(i) ==
    LET blocked(near) ==
            /\ near.leadVehicle # 0
            /\ near.isCrossing
            /\ near.distance < safeDistanceOf(PrevVehicles[i])
            /\ PrevVehicles[near.leadVehicle].speed = 0
            /\ PrevVehicles[near.leadVehicle].stoppedSince > 0
    IN  /\ PrevVehicles[i].speed = 0
        /\ PrevVehicles[i].stoppedSince > DeadlockThreshold
        /\ blocked(PrevNear(i))

\* The stopped-tick counter of the nearest vehicle that vehicle i perceived.
BlockerWait(i) == PrevVehicles[PrevNear(i).leadVehicle].stoppedSince

\* C28: a stopped vehicle past the deadlock threshold whose nearest
\* perceived vehicle is a stopped crossing vehicle within the safe distance
\* is released on that tick exactly when its counter is greater than or
\* equal to the blocker's: with a counter below the blocker's its resolved
\* speed is 0, at a gap below 0.5 x safeDistance and at a gap from there up
\* to safeDistance; with a counter that is not below, its resolved speed is
\* not 0, unless its top speed is 0.
C28_LongerWaitGoesFirst ==
    prevTick # NoTick =>
        \A i \in 1..Len(PrevVehicles) :
            BlockedAtCrossing(i) =>
                IF PrevVehicles[i].stoppedSince < BlockerWait(i)
                THEN PrevResolved(i) = 0 /\ NowSpeeds(i) \subseteq {0}
                ELSE PrevTopSpeed(i) # 0 => PrevResolved(i) # 0

\* Vehicle i of the last input was released by the crossing escape: it is
\* blocked at a crossing and has waited at least as long as its blocker.
CrossingEscape(i) ==
    /\ BlockedAtCrossing(i)
    /\ PrevVehicles[i].stoppedSince >= BlockerWait(i)

\* Vehicle i of the last input was released by the same-lane escape: it is
\* past the deadlock threshold, the nearest vehicle it perceived is not a
\* crossing vehicle and is nearer than half the safe distance, and no
\* vehicle of its lane is farther along the lane than it is.
SameLaneEscape(i) ==
    LET close(near) ==
            /\ near.leadVehicle # 0
            /\ ~near.isCrossing
            /\ 2 * near.distance < safeDistanceOf(PrevVehicles[i])
    IN  /\ PrevVehicles[i].stoppedSince > DeadlockThreshold
        /\ close(PrevNear(i))
        /\ \A k \in 1..Len(PrevVehicles) :
              ~(/\ PrevVehicles[k].id # PrevVehicles[i].id
                /\ CurrentLaneId(PrevVehicles[k]) = CurrentLaneId(PrevVehicles[i])
                /\ PrevVehicles[k].progress > PrevVehicles[i].progress)

\* C29: a vehicle released by a deadlock escape, at a crossing or in its
\* lane, has on the tick of its release a resolved speed of 60% of its
\* maximum speed.
C29_ReleaseSpeed ==
    prevTick # NoTick =>
        \A i \in 1..Len(PrevVehicles) :
            ((CrossingEscape(i) \/ SameLaneEscape(i)) /\ Resolves(i)) =>
                /\ PrevResolved(i) = MulDec(PrevVehicles[i].maxSpeed, 6, 10)
                /\ NowSpeeds(i) \subseteq {MulDec(PrevVehicles[i].maxSpeed, 6, 10)}

\* Vehicle k of the last input is ahead of vehicle i along the route of i
\* and nearer than half the safe distance of i, as the engine measures it:
\* in the lane of i, from the front of i to the back of k; in the next
\* route lane of i, the rest of the lane of i plus the progress of k.
AheadWithinHalf(i, k) ==
    LET vi == PrevVehicles[i]
        vk == PrevVehicles[k]
        lane == findLane(currentState.lanes, CurrentLaneId(vi))
        gap == IF CurrentLaneId(vk) = CurrentLaneId(vi)
               THEN vk.progress - vk.dimensions.length \div 2
                    - (vi.progress + vi.dimensions.length \div 2)
               ELSE computeLaneLength(lane) - vi.progress + vk.progress
    IN  /\ vk.id # vi.id
        /\ \/ CurrentLaneId(vk) = CurrentLaneId(vi) /\ vk.progress > vi.progress
           \/ /\ vi.currentLaneIndex + 1 < Len(vi.route)
              /\ CurrentLaneId(vk) = RouteAt(vi, vi.currentLaneIndex + 1)
        /\ 2 * gap < safeDistanceOf(vi)

\* C30: a vehicle past the deadlock threshold is released by the same-lane
\* escape only when its block was spurious: on the tick of release no other
\* vehicle is within 0.5 x safeDistance ahead of it along its route, neither
\* in its current lane nor near the start of its next route lane.
C30_EscapeOnlyWhenSpurious ==
    prevTick # NoTick =>
        \A i \in 1..Len(PrevVehicles) :
            (SameLaneEscape(i) /\ Resolves(i) /\ PrevResolved(i) # 0) =>
                \A k \in 1..Len(PrevVehicles) : ~AheadWithinHalf(i, k)

(***************************************************************************)
(* Visibility.                                                             *)
(***************************************************************************)

\* The road that owns a lane: its own road, or for a lane without one the
\* road found by following its links, forward first, until a lane with a
\* road is reached; NoRoad if there is none within fuel links.
RECURSIVE OwnerAlongLinks(_, _, _)
OwnerAlongLinks(lanes, laneId, fuel) ==
    LET lane == findLane(lanes, laneId)
        along(k) == IF Truthy(lane.links[LinkKeys[k]]) /\ fuel > 0
                    THEN OwnerAlongLinks(lanes, lane.links[LinkKeys[k]], fuel - 1)
                    ELSE NoRoad
    IN  IF lane = Undefined THEN NoRoad
        ELSE IF lane.roadId # NoRoad THEN lane.roadId
        ELSE IF along(1) # NoRoad THEN along(1)
        ELSE IF along(2) # NoRoad THEN along(2)
        ELSE along(3)

\* Some road of a layer above z has the position of the vehicle in its
\* footprint.
UnderRoadAbove(vehicle, z) ==
    \E i \in 1..Len(currentState.roads) :
        LET road == currentState.roads[i]
        IN  /\ road.zIndex > z
            /\ ~IsNaN(vehicle.position.x)
            /\ vehicle.position.x >= road.x
            /\ vehicle.position.x <= road.x + road.width
            /\ vehicle.position.y >= road.y
            /\ vehicle.position.y <= road.y + road.height

\* The vehicle is under a road of a layer above that of the road that owns
\* its current lane.
Hidden(vehicle) ==
    LET owner == findRoad(currentState.roads,
                          OwnerAlongLinks(currentState.lanes, CurrentLaneId(vehicle),
                                          Len(currentState.lanes)))
    IN  owner # Undefined /\ UnderRoadAbove(vehicle, owner.zIndex)

\* C31: after each tick a vehicle is marked invisible exactly when a road of
\* a strictly higher zIndex than the road owning its current lane has the
\* vehicle's position in its footprint, the owning road of a lane without
\* a road being found by following the lane's links to a lane that has one.
C31_InvisibleUnderHigherRoad ==
    \A j \in 1..Len(NowVehicles) :
        findLane(currentState.lanes, CurrentLaneId(NowVehicles[j])) # Undefined
        => (NowVehicles[j].visible = FALSE <=> Hidden(NowVehicles[j]))

(***************************************************************************)
(* The end of a route.                                                     *)
(***************************************************************************)

\* The tick takes vehicle i of the last input to the end of its route: its
\* lane is not there; or its progress, with the resolved speed added,
\* reaches the end of its lane and the route has no next lane that is
\* there; or it is then on the last lane of its route, at or past the end
\* of that lane.
RouteEnds(i) ==
    LET v == PrevVehicles[i]
        lane == findLane(currentState.lanes, CurrentLaneId(v))
        nextLane == findLane(currentState.lanes, RouteAt(v, v.currentLaneIndex + 1))
        onLast(index) == index = Len(v.route) - 1
        after(newProgress, laneLength) ==
            IF newProgress < laneLength THEN FALSE
            ELSE IF nextLane = Undefined THEN TRUE
            ELSE /\ onLast(v.currentLaneIndex + 1)
                 /\ newProgress - laneLength >= computeLaneLength(nextLane)
    IN  IF lane = Undefined THEN TRUE
        ELSE IF Len(lane.points) < 2
        THEN onLast(v.currentLaneIndex) /\ v.progress >= computeLaneLength(lane)
        ELSE after(v.progress + PrevResolved(i), computeLaneLength(lane))

\* Vehicle i of the last input is in the snapshot.
StillThere(i) ==
    \E j \in 1..Len(NowVehicles) : NowVehicles[j].id = PrevVehicles[i].id

\* C32: a vehicle of the previous snapshot is absent from the next one
\* exactly when its progress reached the end of the last lane of its route,
\* or its route has no existing next lane at the end of its current lane;
\* every other vehicle of the previous snapshot is in the next one.
C32_RemovedOnlyAtRouteEnd ==
    prevTick # NoTick =>
        \A i \in 1..Len(PrevVehicles) : ~StillThere(i) <=> RouteEnds(i)

\* A vehicle has left at the end of the last lane of a route of several
\* lanes, while another vehicle, in the middle of its route, stays.
C32_Witness ==
    /\ prevTick # NoTick
    /\ \E i, k \in 1..Len(PrevVehicles) :
          /\ ~StillThere(i)
          /\ Len(PrevVehicles[i].route) > 1
          /\ PrevVehicles[i].currentLaneIndex = Len(PrevVehicles[i].route) - 1
          /\ StillThere(k)
          /\ PrevVehicles[k].currentLaneIndex < Len(PrevVehicles[k].route) - 1

\* C33: in every snapshot the speed of each vehicle is at least 0 and at
\* most the vehicle's own maximum speed, whatever the global speed is.
C33_SpeedWithinBounds ==
    \A j \in 1..Len(NowVehicles) :
        /\ NowVehicles[j].speed >= 0
        /\ NowVehicles[j].speed <= NowVehicles[j].maxSpeed

(***************************************************************************)
(* A caller that runs the simulation again.  It loads a network of one     *)
(* road with the lane g1 from (0,0) to (100,0), sets the inflow of the     *)
(* road, calls setSeed(s) and calls simulationStep MaxReplayTicks times,   *)
(* each time on the snapshot the call before returned; then it starts over *)
(* from the first snapshot with setSeed(s).  From its second run on it may *)
(* also call setSeed in the middle of a run.  replay keeps s, the          *)
(* snapshots of the first run, the number of the run and whether the run   *)
(* has had one setSeed call only, at its start.                            *)
(***************************************************************************)
MaxReplayTicks == 6
MaxRuns == 2

ReplayDocument ==
    [roads |-> <<Road("d1", 0, 0, -5, 100, 10)>>,
     lines |-> <<Line("g1", <<Pt(0, 0, 1), Pt(100, 0, 1)>>, NoLinks, "d1")>>]

\* A setSeed that leaves the vehicle counter as it is.
setSeedOnly(newSeed, counter) == [seed |-> newSeed, vehicleCounter |-> counter]

\* setSeed(newSeed): seed = newSeed; vehicleCounter = 0
setSeed(newSeed, counter) == [seed |-> newSeed, vehicleCounter |-> 0]

InitReplay ==
    /\ \E s \in SeedChoices :
          /\ seed = setSeed(s, 0).seed
          /\ vehicleCounter = setSeed(s, 0).vehicleCounter
          /\ replay = [s |-> s, first |-> <<>>, run |-> 1, clean |-> TRUE]
    /\ worlds = <<loadInterchangeData(ReplayDocument).state>>
    /\ alone = <<>>
    /\ \E inflow \in {DEFAULT_INFLOW_RATE, ProbScale} :
          roadTrafficSettings =
              updateRoadTrafficSettings(loadInterchangeData(ReplayDocument).settings,
                  "d1", [inflow |-> inflow, turnProbability |-> DEFAULT_TURN_PROBABILITY])
    /\ currentGlobalVehicleSpeed = DEFAULT_VEHICLE_SPEED
    /\ currentState = loadInterchangeData(ReplayDocument).state
    /\ isPaused = TRUE
    /\ posted = NoPost
    /\ spawned = 0
    /\ handled = 0
    /\ lastLoaded = 0
    /\ prevTick = NoTick
    /\ ticks = 0
    /\ RouteIdle
    /\ LoadIdle
    /\ LifeIdle
    /\ PanelIdle

\* worlds[1] = simulationStep(worlds[1])
ReplayTick ==
    /\ ticks < MaxReplayTicks
    /\ LET drawn == seededDraws(worlds[1], roadTrafficSettings, seed)
           out == simulationStep(loadedRoads, worlds[1], roadTrafficSettings,
                                 currentGlobalVehicleSpeed, vehicleCounter,
                                 drawn.draws, handled)
       IN  /\ worlds' = <<out.state>>
           /\ seed' = drawn.seed
           /\ vehicleCounter' = out.counter
           /\ replay' = IF replay.run = 1
                        THEN [replay EXCEPT !.first = Append(@, out.state)]
                        ELSE replay
    /\ ticks' = ticks + 1
    /\ UNCHANGED <<currentState, isPaused, currentGlobalVehicleSpeed,
                   roadTrafficSettings, posted, spawned, handled, lastLoaded,
                   prevTick, routeVars, panelVars, loadVars, alone, life>>

\* setSeed(s), and the first snapshot again
StartOver ==
    /\ ticks = MaxReplayTicks
    /\ replay.run < MaxRuns
    /\ seed' = setSeed(replay.s, vehicleCounter).seed
    /\ vehicleCounter' = setSeed(replay.s, vehicleCounter).vehicleCounter
    /\ worlds' = <<loadInterchangeData(ReplayDocument).state>>
    /\ replay' = [replay EXCEPT !.run = @ + 1, !.clean = TRUE]
    /\ ticks' = 0
    /\ UNCHANGED <<currentState, isPaused, currentGlobalVehicleSpeed,
                   roadTrafficSettings, posted, spawned, handled, lastLoaded,
                   prevTick, routeVars, panelVars, loadVars, alone, life>>

\* setSeed(s) between two calls of simulationStep
SeedAgain ==
    /\ replay.run > 1
    /\ replay.clean
    /\ ticks > 0
    /\ seed' = setSeed(replay.s, vehicleCounter).seed
    /\ vehicleCounter' = setSeed(replay.s, vehicleCounter).vehicleCounter
    /\ replay' = [replay EXCEPT !.clean = FALSE]
    /\ UNCHANGED <<worlds, alone, currentState, isPaused, currentGlobalVehicleSpeed,
                   roadTrafficSettings, posted, spawned, handled, lastLoaded,
                   prevTick, ticks, routeVars, panelVars, loadVars, life>>

NextReplay == ReplayTick \/ StartOver \/ SeedAgain

SpecReplay == InitReplay /\ [][NextReplay]_vars

C35_FailedLoadNoEffect ==
    [][(handled' # handled /\ lastLoaded' = lastLoaded)
       => /\ currentState' = currentState
          /\ isPaused' = isPaused
          /\ roadTrafficSettings' = roadTrafficSettings
          /\ vehicleCounter' = vehicleCounter]_vars

(***************************************************************************)
(* Vehicles and the lanes of their snapshot.                               *)
(***************************************************************************)

LaneIdsOf(state) == {state.lanes[k].id : k \in 1..Len(state.lanes)}

\* C36: in the snapshot of the worker every vehicle's currentLaneIndex is an
\* index of its route, and every lane id of its route is the id of a lane of
\* that snapshot, also after an 'interchange' message swapped the network.
C36_RoutedOnOwnLanes ==
    \A i \in 1..Len(currentState.vehicles) :
        LET vehicle == currentState.vehicles[i]
        IN  /\ vehicle.currentLaneIndex >= 0
            /\ vehicle.currentLaneIndex < Len(vehicle.route)
            /\ \A k \in 1..Len(vehicle.route) :
                  vehicle.route[k] \in LaneIdsOf(currentState)

\* A vehicle drives on a network that an 'interchange' message brought in
\* after vehicles had been spawned on the network before it.
C36_Witness ==
    /\ lastLoaded > 0
    /\ spawned > Len(currentState.vehicles)
    /\ currentState.vehicles # <<>>


\* C37: in every snapshot of the worker the ids of the vehicles are
\* pairwise distinct, whatever ticks and 'interchange' messages came before.
C37_DistinctIds ==
    \A i, j \in 1..Len(currentState.vehicles) :
        currentState.vehicles[i].id = currentState.vehicles[j].id => i = j

\* The same for an engine whose caller calls setSeed between two calls of
\* simulationStep (SpecReplay).
DistinctIdsAfterSetSeed ==
    \A w \in 1..Len(worlds) :
        \A i, j \in 1..Len(worlds[w].vehicles) :
            worlds[w].vehicles[i].id = worlds[w].vehicles[j].id => i = j


(***************************************************************************)
(* The order of the vehicles of one lane.                                  *)
(***************************************************************************)

\* Vehicle i of the last input and vehicle j of the current snapshot are
\* one vehicle, on one lane in both.
StaysOnLane(i, j) ==
    /\ NowVehicles[j].id = PrevVehicles[i].id
    /\ NowVehicles[j].currentLaneIndex = PrevVehicles[i].currentLaneIndex

C39_PanelShowsEngineSettings ==
    \A roadId \in RoadIds(currentState) :
        shownSettings(roadSettings, roadId) = settingsOf(roadTrafficSettings, roadId)


(***************************************************************************)
(* Entry lanes and connectors.                                             *)
(***************************************************************************)

\* The ids of the entry lanes of a road among the lanes.
EntryIds(lanes, roadId) ==
    {getCandidateEntryLanes(lanes, roadId)[k].id :
        k \in 1..Len(getCandidateEntryLanes(lanes, roadId))}

\* C40: a load leaves the entry lanes of every road as they are in the
\* document it is given (the lanes of the road that no link names), and no
\* entry lane of the loaded network is a connector.
C40_EntryLanesKept ==
    [][\A roadId \in RoadIds(document) :
          LET loaded == results'[Len(results')].lanes
          IN  /\ EntryIds(loaded, roadId) = EntryIds(document.lines, roadId)
              /\ \A k \in 1..Len(getCandidateEntryLanes(loaded, roadId)) :
                    ~getCandidateEntryLanes(loaded, roadId)[k].virtual]_vars

=============================================================================
